---- MODULE Spec2Model ----
(***************************************************************************)
(* A model of symmer's noncontextual-operator engine:                      *)
(*   symmer/operators/noncontextual_op.py  (NoncontextualOp and            *)
(*                                          NoncontextualSolver)           *)
(*   symmer/operators/anticommuting_op.py  (AntiCommutingOp and            *)
(*                                          conjugate_Pop_with_R)          *)
(* The Pauli-algebra layer the two files are built on (PauliwordOp,        *)
(* IndependentOp, symmer.operators.utils) is modelled from its contract.   *)
(* An operator that needs an intermediate value more than once hands it to *)
(* a helper as a parameter, named after the step of the source it takes.   *)
(***************************************************************************)
EXTENDS Integers, Sequences, FiniteSets, TLC

(***************************************************************************)
(* Exact arithmetic.  A real number is kept as (a/b)*sqrt(m) with m        *)
(* square-free, which is closed under the products, quotients and square   *)
(* roots the code takes; a sum of two incommensurable surds is Irr.  NaN   *)
(* and the infinities are the IEEE values numpy yields for 0/0 and x/0.    *)
(***************************************************************************)
Abs(k) == IF k < 0 THEN -k ELSE k

Sgn(k) == IF k < 0 THEN -1 ELSE IF k = 0 THEN 0 ELSE 1

RECURSIVE GCD(_, _)
GCD(x, y) == IF y = 0 THEN x ELSE GCD(y, x % y)

RECURSIVE SquarePartFrom(_, _)
SquarePartFrom(k, r) ==
    IF r <= 1 THEN 1
    ELSE IF k % (r * r) = 0 THEN r
    ELSE SquarePartFrom(k, r - 1)

RECURSIVE FloorSqrtFrom(_, _)
FloorSqrtFrom(k, r) == IF (r + 1) * (r + 1) > k THEN r ELSE FloorSqrtFrom(k, r + 1)

\* the largest r with r*r dividing k (k >= 1)
SquarePart(k) == SquarePartFrom(k, FloorSqrtFrom(k, 0))

Surd(a, b, m) == [a |-> a, b |-> b, m |-> m]

Zero == Surd(0, 1, 1)

One == Surd(1, 1, 1)

NaN == Surd(0, 0, 0)

Irr == Surd(0, 0, 1)

Inf(s) == Surd(s, 0, 1)

I2S(k) == Surd(k, 1, 1)

IsFinite(x) == x.b > 0

IsZero(x) == x.a = 0 /\ x.b > 0

\* (a/b)*sqrt(m) brought to normal form, for b > 0 and m >= 1
SReduce(a, b, m, g) == Surd(a \div g, b \div g, m)

SNormBy(a, b, m, r) ==
    IF a = 0 THEN Zero ELSE SReduce(a * r, b, m \div (r * r), GCD(Abs(a * r), b))

SNorm(a, b, m) ==
    IF m = 1 THEN SReduce(a, b, 1, GCD(Abs(a), b)) ELSE SNormBy(a, b, m, SquarePart(m))

Q(k, d) == SNorm(k, d, 1)

SNeg(x) == IF x.b > 0 \/ x.m = 1 THEN Surd(-x.a, x.b, x.m) ELSE x

\* numpy: nan spreads, 0*inf = nan, otherwise a signed infinity; Irr is an
\* unknown finite number
SMulSpecial(x, y) ==
    IF x = NaN \/ y = NaN THEN NaN
    ELSE IF x = Irr \/ y = Irr THEN IF IsZero(x) \/ IsZero(y) THEN Zero ELSE Irr
    ELSE IF IsZero(x) \/ IsZero(y) THEN NaN
    ELSE Inf(Sgn(x.a) * Sgn(y.a))

SMulBy(x, y, g) == SNorm(x.a * y.a * g, x.b * y.b, (x.m \div g) * (y.m \div g))

SMul(x, y) ==
    IF IsFinite(x) /\ IsFinite(y) THEN SMulBy(x, y, GCD(x.m, y.m))
    ELSE SMulSpecial(x, y)

SInv(x) ==
    IF x = NaN \/ x = Irr THEN x
    ELSE IF ~IsFinite(x) THEN Zero
    ELSE IF x.a = 0 THEN Inf(1)
    ELSE SNorm(Sgn(x.a) * x.b, Abs(x.a) * x.m, x.m)

SDiv(x, y) == IF IsZero(x) /\ IsZero(y) THEN NaN ELSE SMul(x, SInv(y))

SAddSpecial(x, y) ==
    IF x = NaN \/ y = NaN THEN NaN
    ELSE IF x = Irr \/ y = Irr THEN Irr
    ELSE IF IsFinite(x) THEN y
    ELSE IF IsFinite(y) \/ y = x THEN x
    ELSE NaN

SAdd(x, y) ==
    IF IsFinite(x) /\ IsFinite(y)
    THEN IF x.a = 0 THEN y
         ELSE IF y.a = 0 THEN x
         ELSE IF x.m = y.m THEN SNorm(x.a * y.b + y.a * x.b, x.b * y.b, x.m)
         ELSE Irr
    ELSE SAddSpecial(x, y)

SSub(x, y) == SAdd(x, SNeg(y))

SSq(x) == SMul(x, x)

\* np.sqrt of a non-negative rational; the square root of a surd is not kept
SSqrt(x) ==
    IF ~IsFinite(x) THEN x
    ELSE IF x.a < 0 THEN NaN
    ELSE IF x.a = 0 THEN Zero
    ELSE IF x.m # 1 THEN Irr
    ELSE SNorm(1, x.b, x.a * x.b)

SSign(x) == IF IsFinite(x) \/ x.m = 1 THEN Sgn(x.a) ELSE 0

\* order of two rationals
RLess(x, y) == x.a * y.b < y.a * x.b

RECURSIVE SSumSq(_)
SSumSq(v) == IF v = <<>> THEN Zero ELSE SAdd(SSq(Head(v)), SSumSq(Tail(v)))

(***************************************************************************)
(* Complex coefficients: re + i*im over the surds.                         *)
(***************************************************************************)
Cx(re, im) == [re |-> re, im |-> im]

CReal(x) == Cx(x, Zero)

CInt(k) == Cx(I2S(k), Zero)

CZero == Cx(Zero, Zero)

COne == Cx(One, Zero)

CAdd(x, y) == Cx(SAdd(x.re, y.re), SAdd(x.im, y.im))

CNeg(x) == Cx(SNeg(x.re), SNeg(x.im))

CMul(x, y) == Cx(SSub(SMul(x.re, y.re), SMul(x.im, y.im)),
                 SAdd(SMul(x.re, y.im), SMul(x.im, y.re)))

CConj(x) == Cx(x.re, SNeg(x.im))

CScale(x, s) == Cx(SMul(x.re, s), SMul(x.im, s))

\* division of a coefficient by a real scalar (0/0 is nan in both parts)
CDivS(x, s) == Cx(SDiv(x.re, s), SDiv(x.im, s))

\* x * i^k for k in 0..3
CTimesI(x, k) ==
    CASE k = 0 -> x
      [] k = 1 -> Cx(SNeg(x.im), x.re)
      [] k = 2 -> CNeg(x)
      [] k = 3 -> Cx(x.im, SNeg(x.re))

\* x * s for a sign s in {-1, 0, 1}
CSigned(x, s) == IF s = 1 THEN x ELSE IF s = -1 THEN CNeg(x) ELSE CZero

CIsZero(x) == IsZero(x.re) /\ IsZero(x.im)

\* |c|^2, and np.linalg.norm of a complex vector
MagSq(c) == SAdd(SSq(c.re), SSq(c.im))

RECURSIVE SumMagSq(_)
SumMagSq(v) == IF v = <<>> THEN Zero ELSE SAdd(MagSq(Head(v)), SumMagSq(Tail(v)))

CNorm(v) == SSqrt(SumMagSq(v))

(***************************************************************************)
(* Pauli terms: a function from qubit to letter.                           *)
(***************************************************************************)
Letters == {"I", "X", "Y", "Z"}

\* 'I' * n
Identity(n) == [q \in 1..n |-> "I"]

\* the number of qubits of an operator; an operator without rows does not
\* record it here
n_qubits(op) == IF op = <<>> THEN 0 ELSE Len(op[1].p)

\* the symplectic bits of one letter
XBit(l) == l \in {"X", "Y"}

ZBit(l) == l \in {"Z", "Y"}

\* np.any(X_block, axis=1) of one row
HasXSupport(P) == \E q \in 1..Len(P) : XBit(P[q])

LettersAnticommute(k, l) == k # "I" /\ l # "I" /\ k # l

\* two Pauli terms commute iff they anticommute on an even number of qubits
Commutes(P, R) ==
    Cardinality({q \in 1..Len(P) : LettersAnticommute(P[q], R[q])}) % 2 = 0

Third(k, l) == CHOOSE t \in Letters \ {"I", k, l} : TRUE

\* letter product k*l = i^ph * letter
LetterMul(k, l) ==
    IF k = "I" THEN [l |-> l, ph |-> 0]
    ELSE IF l = "I" THEN [l |-> k, ph |-> 0]
    ELSE IF k = l THEN [l |-> "I", ph |-> 0]
    ELSE IF <<k, l>> \in {<<"X", "Y">>, <<"Y", "Z">>, <<"Z", "X">>}
         THEN [l |-> Third(k, l), ph |-> 1]
         ELSE [l |-> Third(k, l), ph |-> 3]

RECURSIVE PhaseSum(_, _, _)
PhaseSum(P, R, q) ==
    IF q = 0 THEN 0 ELSE (LetterMul(P[q], R[q]).ph + PhaseSum(P, R, q - 1)) % 4

\* the product of two Pauli terms: the resulting term and its phase i^ph
PauliMul(P, R) ==
    [p  |-> [q \in 1..Len(P) |-> LetterMul(P[q], R[q]).l],
     ph |-> PhaseSum(P, R, Len(P))]

\* one weighted term, and the product of two weighted terms
Term(P, c) == [p |-> P, c |-> c]

TermMulBy(c, d, pr) == Term(pr.p, CTimesI(CMul(c, d), pr.ph))

TermMul(s, t) == TermMulBy(s.c, t.c, PauliMul(s.p, t.p))

(***************************************************************************)
(* PauliwordOp: an ordered sequence of weighted terms.  Indices are        *)
(* 1-based here where numpy's are 0-based.                                 *)
(***************************************************************************)
Range(f) == {f[i] : i \in DOMAIN f}

\* op[indices]: the rows named by a sequence of indices, in that order
Rows(op, idx) == [k \in 1..Len(idx) |-> op[idx[k]]]

\* the increasing sequence of the indices 1..n that satisfy keep
RECURSIVE MaskIdxUpTo(_, _)
MaskIdxUpTo(keep, n) ==
    IF n = 0 THEN <<>>
    ELSE IF keep[n] THEN Append(MaskIdxUpTo(keep, n - 1), n)
    ELSE MaskIdxUpTo(keep, n - 1)

\* np.where(mask): the indices at which a boolean vector is true
Where(mask) == MaskIdxUpTo(mask, Len(mask))

Not(mask) == [i \in 1..Len(mask) |-> ~mask[i]]

coeff_vec(op) == [i \in 1..Len(op) |-> op[i].c]

symp_matrix(op) == [i \in 1..Len(op) |-> op[i].p]

PauliwordOp(symp, coeffs) == [i \in 1..Len(symp) |-> Term(symp[i], coeffs[i])]

\* the first index at which P occurs in op, 0 if none
RECURSIVE IndexOfFrom(_, _, _)
IndexOfFrom(op, P, i) ==
    IF i > Len(op) THEN 0
    ELSE IF op[i].p = P THEN i
    ELSE IndexOfFrom(op, P, i + 1)

IndexOf(op, P) == IndexOfFrom(op, P, 1)

MergeAt(acc, t, k) ==
    IF k = 0 THEN Append(acc, t) ELSE [acc EXCEPT ![k].c = CAdd(@, t.c)]

RECURSIVE MergeInto(_, _)
MergeInto(acc, rest) ==
    IF rest = <<>> THEN acc
    ELSE MergeInto(MergeAt(acc, Head(rest), IndexOf(acc, Head(rest).p)), Tail(rest))

NonZeroTerm(t) == ~CIsZero(t.c)

\* cleanup: merge duplicate terms, summing coefficients, and drop zero entries
cleanup(op) == SelectSeq(MergeInto(<<>>, op), NonZeroTerm)

\* PauliwordOp.empty: the operator 0 * I...I
empty(n) == <<Term(Identity(n), CZero)>>

\* op + other: stack the rows and clean up
OpAdd(op, other) == cleanup(op \o other)

multiply_by_constant(op, c) == [i \in 1..Len(op) |-> Term(op[i].p, CMul(op[i].c, c))]

Negated(op) == [i \in 1..Len(op) |-> Term(op[i].p, CNeg(op[i].c))]

OpSub(op, other) == OpAdd(op, Negated(other))

\* the order of two coefficient magnitudes
MagLess(c, d) == RLess(MagSq(c), MagSq(d))

\* insert t after every term of magnitude >= its own (a stable descending sort)
RECURSIVE InsertByMagnitude(_, _)
InsertByMagnitude(sorted, t) ==
    IF sorted = <<>> THEN <<t>>
    ELSE IF MagLess(Head(sorted).c, t.c) THEN <<t>> \o sorted
    ELSE <<Head(sorted)>> \o InsertByMagnitude(Tail(sorted), t)

RECURSIVE SortFrom(_, _)
SortFrom(sorted, rest) ==
    IF rest = <<>> THEN sorted
    ELSE SortFrom(InsertByMagnitude(sorted, Head(rest)), Tail(rest))

\* op.sort(by='magnitude'): decreasing coefficient magnitude, ties in order
sort_magnitude(op) == SortFrom(<<>>, op)

\* the same operator: the same terms with the same coefficients, in any order
SameOperator(op, other) == Range(cleanup(op)) = Range(cleanup(other))

(***************************************************************************)
(* Commutation structure.                                                  *)
(***************************************************************************)
\* term.commutes_termwise(op): one boolean per row of op
commutes_termwise(t, op) == [j \in 1..Len(op) |-> Commutes(t.p, op[j].p)]

adjacency_matrix(op) == [i \in 1..Len(op) |-> commutes_termwise(op[i], op)]

\* The rows that do not commute universally must fall into classes with
\* identical commutation rows that do not overlap: within a class the terms
\* commute, terms of different classes anticommute.
NonUniversal(adj) == {i \in 1..Len(adj) : \E j \in 1..Len(adj) : ~adj[i][j]}

CommutingRow(adj, among, i) == {j \in among : adj[i][j]}

DisjointClasses(adj, among) ==
    \A i, j \in among :
        CommutingRow(adj, among, i) = CommutingRow(adj, among, j)
        \/ CommutingRow(adj, among, i) \cap CommutingRow(adj, among, j) = {}

check_adjmat_noncontextual(adj) == DisjointClasses(adj, NonUniversal(adj))

is_noncontextual(op) == check_adjmat_noncontextual(adjacency_matrix(op))

\* AntiCommutingOp.__init__'s check: adjacency minus the identity sums to zero
IsAntiCommuting(op) ==
    \A i, j \in 1..Len(op) : i # j => ~Commutes(op[i].p, op[j].p)

(***************************************************************************)
(* Generating sets and reconstruction (the Pauli-algebra and clique-cover  *)
(* contracts NoncontextualOp consumes).                                    *)
(***************************************************************************)
\* the bit pattern of the ordered product of the rows a 0/1 row selects among
\* the first k generators, on n qubits
RECURSIVE PatternUpTo(_, _, _, _)
PatternUpTo(n, gens, row, k) ==
    IF k = 0 THEN Identity(n)
    ELSE IF row[k] = 1 THEN PauliMul(PatternUpTo(n, gens, row, k - 1), gens[k].p).p
    ELSE PatternUpTo(n, gens, row, k - 1)

\* the phase exponent of that product, the generators having coefficient 1
RECURSIVE PhaseUpTo(_, _, _)
PhaseUpTo(gens, row, k) ==
    IF k = 0 THEN 0
    ELSE IF row[k] = 1
         THEN (PhaseUpTo(gens, row, k - 1)
               + PauliMul(PatternUpTo(Len(gens[k].p), gens, row, k - 1), gens[k].p).ph) % 4
    ELSE PhaseUpTo(gens, row, k - 1)

BoolRows(n) == [1..n -> {0, 1}]

ZeroRow(n) == [j \in 1..n |-> 0]

\* the 0/1 rows over gens whose product has the bit pattern of P
ReconRows(gens, P) ==
    {row \in BoolRows(Len(gens)) : PatternUpTo(Len(P), gens, row, Len(gens)) = P}

InSpan(gens, P) == ReconRows(gens, P) # {}

PickRow(rows, n) == IF rows = {} THEN ZeroRow(n) ELSE CHOOSE row \in rows : TRUE

\* generator_reconstruction: per term of op a row over gens, and whether
\* one was found
generator_reconstruction(op, gens) ==
    [matrix     |-> [t \in 1..Len(op) |-> PickRow(ReconRows(gens, op[t].p), Len(gens))],
     successful |-> [t \in 1..Len(op) |-> InSpan(gens, op[t].p)]]

\* the generators a row selects commute pairwise, so that their Jordan
\* product does not vanish (at most one clique representative is used)
JordanRow(gens, row) ==
    \A i, j \in 1..Len(gens) :
        row[i] = 1 /\ row[j] = 1 => Commutes(gens[i].p, gens[j].p)

JordanRows(gens, P) == {row \in ReconRows(gens, P) : JordanRow(gens, row)}

jordan_generator_reconstruction(op, gens) ==
    [matrix     |-> [t \in 1..Len(op) |-> PickRow(JordanRows(gens, op[t].p), Len(gens))],
     successful |-> [t \in 1..Len(op) |-> JordanRows(gens, op[t].p) # {}]]

\* keep each candidate that is independent of those kept before it
RECURSIVE IndependentFrom(_, _)
IndependentFrom(kept, rest) ==
    IF rest = <<>> THEN kept
    ELSE IF InSpan(kept, Head(rest)) THEN IndependentFrom(kept, Tail(rest))
    ELSE IndependentFrom(Append(kept, Term(Head(rest), COne)), Tail(rest))

\* the lowest-numbered clique whose members all commute with P, 0 if none
RECURSIVE FirstFit(_, _, _)
FirstFit(cliques, P, k) ==
    IF k > Len(cliques) THEN 0
    ELSE IF \A j \in 1..Len(cliques[k]) : Commutes(P, cliques[k][j].p) THEN k
    ELSE FirstFit(cliques, P, k + 1)

CoverAt(cliques, t, k) ==
    IF k = 0 THEN Append(cliques, <<t>>) ELSE [cliques EXCEPT ![k] = Append(@, t)]

\* clique_cover(edge_relation='C'): a partition of the terms into groups of
\* mutually commuting terms, numbered in order of first appearance
RECURSIVE CoverFrom(_, _)
CoverFrom(cliques, rest) ==
    IF rest = <<>> THEN cliques
    ELSE CoverFrom(CoverAt(cliques, Head(rest), FirstFit(cliques, Head(rest).p, 1)),
                   Tail(rest))

clique_cover(op) == CoverFrom(<<>>, op)

universal_mask(op) ==
    [i \in 1..Len(op) |-> \A j \in 1..Len(op) : Commutes(op[i].p, op[j].p)]

RECURSIVE Flatten(_)
Flatten(ss) == IF ss = <<>> THEN <<>> ELSE Head(ss) \o Flatten(Tail(ss))

\* the products C[1]*C[k] within one clique: they commute with every term
InCliqueProducts(C) == [k \in 1..(Len(C) - 1) |-> PauliMul(C[1].p, C[k + 1].p).p]

InnerProducts(cliques) ==
    Flatten([k \in 1..Len(cliques) |-> InCliqueProducts(cliques[k])])

GeneratorsOver(op, univ) ==
    IndependentFrom(<<>>, symp_matrix(Rows(op, Where(univ)))
                          \o InnerProducts(clique_cover(Rows(op, Where(Not(univ))))))

\* IndependentOp.symmetry_generators: an independent, pairwise commuting
\* generating set for the terms that commute with every term of op, each
\* generator with coefficient 1
symmetry_generators_of(op) == GeneratorsOver(op, universal_mask(op))

(***************************************************************************)
(* NoncontextualOp: construction (noncontextual_op.py, lines 27-48 and     *)
(* 216-263).                                                               *)
(***************************************************************************)
\* sum([...]) of single-term operators: repeated addition with cleanup
RECURSIVE SumOps(_)
SumOps(ops) == IF ops = <<>> THEN <<>> ELSE OpAdd(<<Head(ops)>>, SumOps(Tail(ops)))

\* one representative per clique: its term of largest magnitude
Representatives(cliques) ==
    [k \in 1..Len(cliques) |-> sort_magnitude(cliques[k])[1]]

decompose(self, G, symmetry_mask, cliques) ==
    [symmetry_generators |-> G,
     decomposed          |-> [cliques  |-> cliques,
                              symmetry |-> Rows(self, Where(symmetry_mask))],
     n_cliques           |-> Len(cliques),
     clique_operator     |-> IF Len(cliques) > 0 THEN SumOps(Representatives(cliques))
                             ELSE cleanup(empty(n_qubits(self)))]

\* a decomposition whose symmetry block is not cut down to the symmetry terms
decompose_overlapping(self, G, symmetry_mask) ==
    decompose(self, G, [i \in 1..Len(self) |-> TRUE],
              clique_cover(Rows(self, Where(Not(symmetry_mask)))))

decompose_by(self, G, symmetry_mask) ==
    decompose(self, G, symmetry_mask,
              clique_cover(Rows(self, Where(Not(symmetry_mask)))))

generators_over(self, G) ==
    decompose_by(self, G, generator_reconstruction(self, G).successful)

\* noncontextual_generators: the symmetry generators, the decomposition
\* into cliques and a symmetry block, and the clique operator
noncontextual_generators(self) == generators_over(self, symmetry_generators_of(self))

\* multiply_indices: the real part of the literal product of the selected
\* generators, as an integer
multiply_indices(noncon_generators, row) ==
    CASE PhaseUpTo(noncon_generators, row, Len(noncon_generators)) = 0 -> 1
      [] PhaseUpTo(noncon_generators, row, Len(noncon_generators)) = 2 -> -1
      [] OTHER -> 0

AnySet(row) == \E i \in 1..Len(row) : row[i] = 1

reconstruction(self, nG, nC, noncon_generators, jr) ==
    [successful       |-> \A t \in 1..Len(self) : jr.successful[t],
     G_indices        |-> [t \in 1..Len(self) |-> SubSeq(jr.matrix[t], 1, nG)],
     C_indices        |-> [t \in 1..Len(self) |-> SubSeq(jr.matrix[t], nG + 1, nG + nC)],
     mask_S0          |-> [t \in 1..Len(self) |->
                              ~AnySet(SubSeq(jr.matrix[t], nG + 1, nG + nC))],
     mask_Ci          |-> [i \in 1..nC |->
                              [t \in 1..Len(self) |-> jr.matrix[t][nG + i] = 1]],
     pauli_mult_signs |-> [t \in 1..Len(self) |->
                              multiply_indices(noncon_generators, jr.matrix[t])]]

\* a reconstruction that takes a product of anticommuting generators
\* where one exists
AntiRows(gens, P) == ReconRows(gens, P) \ JordanRows(gens, P)

reconstruction_plain(self, nG, nC, noncon_generators) ==
    reconstruction(self, nG, nC, noncon_generators,
        [matrix     |-> [t \in 1..Len(self) |->
                            IF AntiRows(noncon_generators, self[t].p) # {}
                            THEN PickRow(AntiRows(noncon_generators, self[t].p),
                                         Len(noncon_generators))
                            ELSE PickRow(ReconRows(noncon_generators, self[t].p),
                                         Len(noncon_generators))],
         successful |-> [t \in 1..Len(self) |-> InSpan(noncon_generators, self[t].p)]])

reconstruction_over(self, nG, nC, noncon_generators) ==
    reconstruction(self, nG, nC, noncon_generators,
                   jordan_generator_reconstruction(self, noncon_generators))

\* noncontextual_reconstruction: the Jordan reconstruction of every term
\* over G followed by the clique representatives
noncontextual_reconstruction(self, gen) ==
    reconstruction_over(self, Len(gen.symmetry_generators), Len(gen.clique_operator),
        [k \in 1..(Len(gen.symmetry_generators) + Len(gen.clique_operator)) |->
            Term((symp_matrix(gen.symmetry_generators)
                  \o symp_matrix(gen.clique_operator))[k], COne)])

NoOp == [exists |-> FALSE, terms |-> <<>>,
         symmetry_generators |-> <<>>,
         decomposed |-> [cliques |-> <<>>, symmetry |-> <<>>],
         n_cliques |-> 0, clique_operator |-> <<>>,
         G_indices |-> <<>>, C_indices |-> <<>>, mask_S0 |-> <<>>,
         mask_Ci |-> <<>>, pauli_mult_signs |-> <<>>]

Raised(e) == [ok |-> FALSE, err |-> e, op |-> NoOp]

Constructed(self, gen, rec) ==
    IF ~rec.successful
    THEN Raised("AssertionError: The generating set is not sufficient to reconstruct the noncontextual Hamiltonian")
    ELSE [ok  |-> TRUE, err |-> "",
          op  |-> [exists |-> TRUE, terms |-> self,
                   symmetry_generators |-> gen.symmetry_generators,
                   decomposed |-> gen.decomposed,
                   n_cliques |-> gen.n_cliques,
                   clique_operator |-> gen.clique_operator,
                   G_indices |-> rec.G_indices,
                   C_indices |-> rec.C_indices,
                   mask_S0 |-> rec.mask_S0,
                   mask_Ci |-> rec.mask_Ci,
                   pauli_mult_signs |-> rec.pauli_mult_signs]]

Generated(self, gen) ==
    IF ~IsAntiCommuting(gen.clique_operator)
    THEN Raised("AssertionError: operator needs to be made of anti-commuting Pauli operators")
    ELSE Constructed(self, gen, noncontextual_reconstruction(self, gen))

\* the constructor's steps without the noncontextuality assertion
Unchecked(self) == Generated(self, noncontextual_generators(self))

Checked(self) ==
    IF ~is_noncontextual(self)
    THEN Raised("AssertionError: Specified operator is contextual.")
    ELSE Generated(self, noncontextual_generators(self))

\* NoncontextualOp.__init__: the three steps, each of which may raise
NoncontextualOp(symp, coeffs) == Checked(PauliwordOp(symp, coeffs))

from_PauliwordOp(Hin) == NoncontextualOp(symp_matrix(Hin), coeff_vec(Hin))

\* every row of H
mask_all(Hin) == [i \in 1..Len(Hin) |-> i]

\* _diag_noncontextual_op: the rows of H without X-support
mask_diag(Hin) == Where([i \in 1..Len(Hin) |-> ~HasXSupport(Hin[i].p)])

diag_noncontextual_op(Hin) == from_PauliwordOp(Rows(Hin, mask_diag(Hin)))

\* _from_basis_noncontextual_op: the rows of H the basis reconstructs under
\* the Jordan product
from_basis_noncontextual_op(Hin, generators, given) ==
    IF ~given THEN Raised("AssertionError: Must specify a noncontextual basis.")
    ELSE from_PauliwordOp(
            Rows(Hin, Where(jordan_generator_reconstruction(Hin, generators).successful)))

(***************************************************************************)
(* The energy model (noncontextual_op.py, lines 290-310).  An energy       *)
(* s0 - ||s|| is kept as the pair of s0 and the sum of squares of s.       *)
(***************************************************************************)
RECURSIVE SumReal(_, _, _)
SumReal(cm, mask, t) ==
    IF t = 0 THEN Zero
    ELSE IF mask[t] THEN SAdd(SumReal(cm, mask, t - 1), cm[t].re)
    ELSE SumReal(cm, mask, t - 1)

\* (-1) ** the number of generators a row uses whose nu is exactly -1
FlipSign(Grow, nu) ==
    IF Cardinality({j \in 1..Len(Grow) : Grow[j] = 1 /\ nu[j] = -1}) % 2 = 0
    THEN 1 ELSE -1

\* the coefficients without the signs of the Pauli products
coeff_mod_unsigned(NC, nu) ==
    [t \in 1..Len(NC.terms) |->
        CSigned(NC.terms[t].c, FlipSign(NC.G_indices[t], nu))]

coeff_mod(NC, nu) ==
    [t \in 1..Len(NC.terms) |->
        CSigned(NC.terms[t].c, NC.pauli_mult_signs[t] * FlipSign(NC.G_indices[t], nu))]

contributions(NC, cm) ==
    [s0 |-> SumReal(cm, NC.mask_S0, Len(cm)),
     si |-> [i \in 1..Len(NC.mask_Ci) |-> SumReal(cm, NC.mask_Ci[i], Len(cm))]]

get_symmetry_contributions(NC, nu) == contributions(NC, coeff_mod(NC, nu))

EnergyOf(c) == [s0 |-> c.s0, sq |-> SSumSq(c.si)]

get_energy(NC, nu) == EnergyOf(get_symmetry_contributions(NC, nu))

\* c + sqrt(esq) < sqrt(fsq) for c >= 0, with r = fsq - c^2 - esq
LessAbove(c, esq, r) ==
    RLess(Zero, r) /\ RLess(SMul(I2S(4), SMul(SSq(c), esq)), SSq(r))

\* sqrt(esq) < sqrt(fsq) + |c|, with r = esq - fsq - c^2
LessBelow(c, fsq, r) ==
    RLess(r, Zero) \/ RLess(SSq(r), SMul(I2S(4), SMul(SSq(c), fsq)))

\* c + sqrt(f.sq) < sqrt(e.sq), for c = e.s0 - f.s0
ELessBy(e, f, c) ==
    IF ~RLess(c, Zero) THEN LessAbove(c, f.sq, SSub(SSub(e.sq, SSq(c)), f.sq))
    ELSE LessBelow(c, e.sq, SSub(SSub(f.sq, e.sq), SSq(c)))

\* e.s0 - sqrt(e.sq) < f.s0 - sqrt(f.sq), decided exactly
ELess(e, f) == ELessBy(e, f, SSub(e.s0, f.s0))

ELeq(e, f) == ~ELess(f, e)

(***************************************************************************)
(* NoncontextualSolver (noncontextual_op.py, lines 491-658).               *)
(***************************************************************************)
\* NoncontextualSolver.__init__
NoncontextualSolver(NC, mask, eigvals, given) ==
    IF given THEN [NC_op |-> NC, fixed_ev_mask |-> mask, fixed_eigvals |-> eigvals]
    ELSE [NC_op |-> NC,
          fixed_ev_mask |-> [j \in 1..Len(NC.symmetry_generators) |-> FALSE],
          fixed_eigvals |-> <<>>]

RECURSIVE Pow2(_)
Pow2(k) == IF k = 0 THEN 1 ELSE 2 * Pow2(k - 1)

\* row r (from 0) of itertools.product([-1, 1], repeat=k): the first entry
\* varies slowest
Signs == <<-1, 1>>

ProductRow(r, k) == [j \in 1..k |-> Signs[((r \div Pow2(k - j)) % 2) + 1]]

\* the position of index j among the indices where mask has value v
RankIn(mask, j, v) == Cardinality({i \in 1..j : mask[i] = v})

\* a full vector from the fixed eigenvalues and the values of the free ones
Scatter(mask, fixed, free) ==
    [j \in 1..Len(mask) |-> IF mask[j] THEN fixed[RankIn(mask, j, TRUE)]
                            ELSE free[RankIn(mask, j, FALSE)]]

NFree(mask) == Cardinality({j \in 1..Len(mask) : ~mask[j]})

AllFixed(mask) == \A j \in 1..Len(mask) : mask[j]

ProductRows(mask, fixed, k) ==
    [r \in 1..Pow2(k) |-> Scatter(mask, fixed, ProductRow(r - 1, k))]

nu_list(S) ==
    IF AllFixed(S.fixed_ev_mask) THEN <<S.fixed_eigvals>>
    ELSE ProductRows(S.fixed_ev_mask, S.fixed_eigvals, NFree(S.fixed_ev_mask))

\* the entry the search starts from, whatever the energies
ArgFirst(tracker, best, i) == best

\* min(zip(tracker, nu_list), key=...): the first entry of least energy
RECURSIVE ArgMinFrom(_, _, _)
ArgMinFrom(tracker, best, i) ==
    IF i > Len(tracker) THEN best
    ELSE IF ELess(tracker[i], tracker[best]) THEN ArgMinFrom(tracker, i, i + 1)
    ELSE ArgMinFrom(tracker, best, i + 1)

Minimum(tracker, nus, best) == [energy |-> tracker[best], nu |-> nus[best]]

search(tracker, nus) == Minimum(tracker, nus, ArgMinFrom(tracker, 1, 2))

energies(NC, nus) == [r \in 1..Len(nus) |-> get_energy(NC, nus[r])]

brute_force_over(S, nus) == search(energies(S.NC_op, nus), nus)

energy_via_brute_force(S) == brute_force_over(S, nu_list(S))

\* Angles of the relaxation lie on the grid 0, pi/2, pi, named 0, 1, 2:
\* np.cos of them is 1, (nearly) 0 and -1
Grid == {0, 1, 2}

cos_grid(k) == 1 - k

\* np.cos(v), in hundredths, of a value v of -1, 0 or 1 taken as radians
cos_of_value(v) == IF v = 0 THEN 100 ELSE 54

\* get_nu(angles) of energy_via_relaxation, given np.cos(angles)
get_nu(S, cosines) == Scatter(S.fixed_ev_mask, S.fixed_eigvals, cosines)

SignsOf(v) == [j \in 1..Len(v) |-> Sgn(v[j])]

\* energy_via_relaxation for the optimum x the optimiser returns
energy_via_relaxation(S, x) ==
    [energy |-> get_energy(S.NC_op, get_nu(S, [j \in 1..Len(x) |-> cos_grid(x[j])])),
     nu     |-> SignsOf(get_nu(S, [j \in 1..Len(x) |-> cos_of_value(cos_grid(x[j]))]))]

(***************************************************************************)
(* The spin-optimisation strategies (noncontextual_op.py, lines 265-288    *)
(* and 572-658).  The optimiser itself is an external package: its answer  *)
(* is an input of energy_xUSO.                                             *)
(***************************************************************************)
\* op * other: every pairwise product, then clean up
OpMul(op, other) ==
    cleanup(Flatten([i \in 1..Len(op) |->
                [j \in 1..Len(other) |-> TermMul(op[i], other[j])]]))

Squared(op) == OpMul(op, op)

RECURSIVE SumOperators(_)
SumOperators(ops) ==
    IF ops = <<>> THEN <<>> ELSE cleanup(Head(ops) \o SumOperators(Tail(ops)))

\* Si = Ci * decomposed[i], with Ci the clique's first term at coefficient 1
Si_of(clique) == OpMul(<<Term(clique[1].p, COne)>>, clique)

\* PauliwordOp.from_list(['I' * n])
IdentityOp(n) == <<Term(Identity(n), COne)>>

\* S_root for the normalised S: (I + (I - S) * (-1) * 1/2) * sqrt(norm)
root_of(S, norm) ==
    multiply_by_constant(
        SumOperators(<<IdentityOp(n_qubits(S)),
                       multiply_by_constant(OpSub(IdentityOp(n_qubits(S)), S),
                                            CReal(Q(-1, 2)))>>),
        CReal(SSqrt(norm)))

normalised_root(S, norm) ==
    root_of(multiply_by_constant(S, CReal(SInv(norm))), norm)

root_of_sum(S) == normalised_root(S, CNorm(coeff_vec(S)))

\* symmetrized_operator, expansion_order = 1; needs at least one clique
symmetrized_operator(NC) ==
    OpSub(NC.decomposed.symmetry,
          root_of_sum(SumOperators([i \in 1..NC.n_cliques |->
                                       Squared(Si_of(NC.decomposed.cliques[i]))])))

\* the free generators a row multiplies, and the product of its fixed ones
Monomial(S, row) == {j \in 1..Len(row) : row[j] = 1 /\ ~S.fixed_ev_mask[j]}

FixedSign(S, row) ==
    IF Cardinality({j \in 1..Len(row) : row[j] = 1 /\ S.fixed_ev_mask[j]
           /\ S.fixed_eigvals[RankIn(S.fixed_ev_mask, j, TRUE)] = -1}) % 2 = 0
    THEN 1 ELSE -1

RECURSIVE SumCost(_, _, _, _, _)
SumCost(S, op, rows, mono, t) ==
    IF t = 0 THEN Zero
    ELSE IF Monomial(S, rows[t]) = mono
    THEN SAdd(SumCost(S, op, rows, mono, t - 1),
              IF FixedSign(S, rows[t]) = 1 THEN op[t].c.re ELSE SNeg(op[t].c.re))
    ELSE SumCost(S, op, rows, mono, t - 1)

cost_variables(S, op, rows) ==
    UNION {m \in {Monomial(S, rows[t]) : t \in 1..Len(op)} :
              ~IsZero(SumCost(S, op, rows, m, Len(op)))}

cost_of(S, op) ==
    cost_variables(S, op, generator_reconstruction(op, S.NC_op.symmetry_generators).matrix)

NoCost == [ok |-> FALSE, V |-> {}]

Cost(V) == [ok |-> TRUE, V |-> V]

\* get_cost_func: the spin variables (generator indices from 1) the cost
\* function keeps, those of its monomials with a non-zero coefficient; with
\* no clique symmetrized_operator raises
get_cost_func(S) ==
    IF S.NC_op.n_cliques = 0 THEN NoCost
    ELSE Cost(cost_of(S, symmetrized_operator(S.NC_op)))

Answer(S, nu_vec) ==
    [ok |-> TRUE, err |-> "", nu |-> nu_vec, energy |-> get_energy(S.NC_op, nu_vec)]

Failure(e) == [ok |-> FALSE, err |-> e, nu |-> <<>>, energy |-> [s0 |-> Zero, sq |-> Zero]]

\* the solution read back as 'x0', 'x1', ... one per binary variable, and
\* written to the free generators in index order; sol[g] is the value of
\* the variable 'x<g - 1>' created for generator g
xUSO_read(S, sol, V, nv, k) ==
    IF \A j \in 1..Len(S.fixed_ev_mask) : S.fixed_ev_mask[j]
    THEN Answer(S, S.fixed_eigvals)
    ELSE IF V = {}
    THEN Failure("AttributeError: 'float' object has no attribute 'to_puso'")
    ELSE IF \E i \in 0..(nv - 1) : (i + 1) \notin V
    THEN Failure("KeyError: 'x'")
    ELSE IF nv # k /\ nv # 1
    THEN Failure("ValueError: shape mismatch")
    ELSE Answer(S, Scatter(S.fixed_ev_mask, S.fixed_eigvals,
                           [i \in 1..k |-> IF nv = 1 THEN sol[1] ELSE sol[i]]))

\* energy_xUSO after COST = self.get_cost_func()
xUSO_over(S, sol, COST) ==
    IF ~COST.ok THEN Failure("AttributeError: 'int' object has no attribute 'coeff_vec'")
    ELSE xUSO_read(S, sol, COST.V, Cardinality(COST.V), NFree(S.fixed_ev_mask))

\* energy_xUSO for the solution sol that the optimiser returns
energy_xUSO(S, sol) == xUSO_over(S, sol, get_cost_func(S))

(***************************************************************************)
(* AntiCommutingOp (anticommuting_op.py).  An angle is kept as its cosine  *)
(* and sine.                                                               *)
(***************************************************************************)
Angle(c, s) == [c |-> c, s |-> s]

AddPi(th) == Angle(SNeg(th.c), SNeg(th.s))

NegAngle(th) == Angle(th.c, SNeg(th.s))

\* cos and sin of atan(t) for a finite t, h being sqrt(1 + t^2)
unit_angle(t, h) == Angle(SInv(h), SDiv(t, h))

\* atan(+-inf) is +-pi/2 and atan(nan) is nan
arctan_of(t) ==
    IF t = NaN \/ t = Irr THEN Angle(t, t)
    ELSE IF ~IsFinite(t) THEN Angle(Zero, I2S(t.a))
    ELSE unit_angle(t, SSqrt(SAdd(One, SSq(t))))

\* np.arctan(bk / bs) for coefficients without imaginary part; other
\* quotients are not followed
np_arctan(bk, bs) ==
    IF ~(IsZero(bk.im) /\ IsZero(bs.im)) THEN Angle(Irr, Irr)
    ELSE arctan_of(SDiv(bk.re, bs.re))

\* AC_op with row k deleted (np.delete)
Delete(op, k) == [i \in 1..(Len(op) - 1) |-> IF i < k THEN op[i] ELSE op[i + 1]]

\* np.sqrt(bs ** 2 + bk ** 2)
root_sum_squares(bs, bk) ==
    IF IsZero(bs.im) /\ IsZero(bk.im) THEN CReal(SSqrt(SAdd(SSq(bs.re), SSq(bk.re))))
    ELSE Cx(Irr, Irr)

\* the rotation appended: X_sk and theta_sk, both negated if X_sk's
\* coefficient has a negative real part
rotation_of(X0, th) ==
    IF SSign(X0.c.re) < 0
    THEN [X_sk |-> Term(X0.p, CNeg(X0.c)), theta_sk |-> NegAngle(th)]
    ELSE [X_sk |-> X0, theta_sk |-> th]

RECURSIVE recursive_seq_rotations(_, _)

seq_append(rots, AC_op, th) ==
    recursive_seq_rotations(
        Append(rots, rotation_of(TermMul(Term(AC_op[1].p, COne),
                                         Term(AC_op[2].p, Cx(Zero, I2S(-1)))), th)),
        Delete([AC_op EXCEPT ![1].c = root_sum_squares(AC_op[1].c, AC_op[2].c),
                             ![2].c = CZero], 2))

\* np.isclose(bk * cos(theta_sk) - bs * sin(theta_sk), 0): computed for
\* coefficients without imaginary part; for others tan(theta_sk) = bk / bs
\* makes the residual vanish unless bs = 0 or bk / bs = +-i, where the
\* arctangent is not finite
zeroes_out(bs, bk, th) ==
    IF IsZero(bs.im) /\ IsZero(bk.im)
    THEN IsZero(SSub(SMul(bk.re, th.c), SMul(bs.re, th.s)))
    ELSE ~CIsZero(bs) /\ bk # CTimesI(bs, 1) /\ bk # CTimesI(bs, 3)

seq_check(rots, AC_op, th) ==
    IF ~zeroes_out(AC_op[1].c, AC_op[2].c, th)
    THEN [ok |-> FALSE, Ps |-> <<>>, X_sk_rotations |-> rots]
    ELSE seq_append(rots, AC_op, th)

seq_theta(bs, th0) == IF SSign(bs.re) < 0 THEN AddPi(th0) ELSE th0

\* _recursive_seq_rotations: rots is self.X_sk_rotations, which keeps what
\* was appended before a failed assertion
recursive_seq_rotations(rots, AC_op) ==
    IF Len(AC_op) = 1 THEN [ok |-> TRUE, Ps |-> AC_op, X_sk_rotations |-> rots]
    ELSE seq_check(rots, AC_op,
                   seq_theta(AC_op[1].c, np_arctan(AC_op[2].c, AC_op[1].c)))

\* the cached LCU operator: None, or an operator
None == [set |-> FALSE, op |-> <<>>]

Some(op) == [set |-> TRUE, op |-> op]

\* cos(alpha/2) and sin(alpha/2) for alpha = np.arccos(bs): for bs without
\* imaginary part alpha lies in [0, pi], so that the branch for alpha > pi
\* is never taken; for any other bs both are complex and not followed
half_arccos(bs) ==
    IF IsZero(bs.im)
    THEN Angle(CReal(SSqrt(SDiv(SAdd(One, bs.re), I2S(2)))),
               CReal(SSqrt(SDiv(SSub(One, bs.re), I2S(2)))))
    ELSE Angle(Cx(Irr, Irr), Cx(Irr, Irr))

RECURSIVE AccumulateLCU(_, _, _, _)
AccumulateLCU(R, rest, Ps_LCU, sin_term) ==
    IF rest = <<>> THEN R
    ELSE AccumulateLCU(
            OpAdd(R, multiply_by_constant(OpMul(<<Head(rest)>>, Ps_LCU), sin_term)),
            Tail(rest), Ps_LCU, sin_term)

lcu_sum(Ps_LCU, no_bsPs, half) ==
    [Ps_LCU |-> Ps_LCU,
     R_LCU  |-> AccumulateLCU(<<Term(Identity(n_qubits(Ps_LCU)), half.c)>>, no_bsPs, Ps_LCU,
                              CNeg(half.s))]

lcu_normalised(Ps_LCU, bs, diff, omega_l) ==
    lcu_sum(Ps_LCU, [i \in 1..Len(diff) |-> Term(diff[i].p, CDivS(diff[i].c, omega_l))],
            half_arccos(bs))

lcu_rest(Ps_LCU, bs, diff) == lcu_normalised(Ps_LCU, bs, diff, CNorm(coeff_vec(diff)))

lcu_target(AC_op, Ps_LCU) ==
    lcu_rest(Ps_LCU, AC_op[1].c, OpSub(AC_op, multiply_by_constant(Ps_LCU, AC_op[1].c)))

\* generate_LCU_operator for a normalised AC_op of at least two terms
generate_LCU_operator(AC_op) == lcu_target(AC_op, <<Term(AC_op[1].p, COne)>>)

\* get_least_dense_term_index: the first row of least support pattern,
\* read as a binary number with the first qubit most significant
RECURSIVE SupportIntUpTo(_, _)
SupportIntUpTo(P, q) ==
    IF q = 0 THEN 0
    ELSE 2 * SupportIntUpTo(P, q - 1) + (IF P[q] = "I" THEN 0 ELSE 1)

SupportInt(P) == SupportIntUpTo(P, Len(P))

RECURSIVE ArgMinIntFrom(_, _, _)
ArgMinIntFrom(v, best, i) ==
    IF i > Len(v) THEN best
    ELSE IF v[i] < v[best] THEN ArgMinIntFrom(v, i, i + 1)
    ELSE ArgMinIntFrom(v, best, i + 1)

get_least_dense_term_index(self) ==
    ArgMinIntFrom([i \in 1..Len(self) |-> SupportInt(self[i].p)], 1, 2) - 1

RECURSIVE SumIm(_)
SumIm(v) == IF v = <<>> THEN Zero ELSE SAdd(Head(v).im, SumIm(Tail(v)))

\* s_index = None
NoIndex == -1

Swap(op, i, j) == [op EXCEPT ![i] = op[j], ![j] = op[i]]

Normalised(op, gamma_l) == [i \in 1..Len(op) |-> Term(op[i].p, CDivS(op[i].c, gamma_l))]

\* what a call leaves and returns: rotations is "None", the rotation list
\* ("seq_rot") or the LCU operator ("LCU")
UPResult(ok, err, Ps, kind, gamma_l, AC_op, rots, R) ==
    [ok |-> ok, err |-> err, Ps |-> Ps, rotations |-> kind, gamma_l |-> gamma_l,
     AC_op |-> AC_op, X_sk_rotations |-> rots, R_LCU |-> R]

UPRaised(e, rots, R) == UPResult(FALSE, e, <<>>, "None", Zero, <<>>, rots, R)

seq_rot_result(AC_op, gamma_l, R_LCU, r) ==
    IF r.ok
    THEN UPResult(TRUE, "", r.Ps, "seq_rot", gamma_l, AC_op, r.X_sk_rotations, R_LCU)
    ELSE UPRaised("AssertionError: term not zeroing out", r.X_sk_rotations, R_LCU)

LCU_result(AC_op, gamma_l, X_sk_rotations, g) ==
    UPResult(TRUE, "", g.Ps_LCU, "LCU", gamma_l, AC_op, X_sk_rotations, Some(g.R_LCU))

\* the branch on up_method: 'seq_rot' empties the rotation list and fills
\* it again, 'LCU' resets and sets R_LCU; neither touches the other cache
partition_by(AC_op, gamma_l, X_sk_rotations, R_LCU, up_method) ==
    IF up_method = "seq_rot"
    THEN seq_rot_result(AC_op, gamma_l, R_LCU, recursive_seq_rotations(<<>>, AC_op))
    ELSE IF up_method = "LCU"
    THEN LCU_result(AC_op, gamma_l, X_sk_rotations, generate_LCU_operator(AC_op))
    ELSE UPRaised("ValueError: unknown unitary partitioning method: other!", X_sk_rotations, R_LCU)

NotAntiCommuting == "AssertionError: operator needs to be made of anti-commuting Pauli operators"

ACResult(ok, e, op) == [ok |-> ok, err |-> e, op |-> op]

\* an AntiCommutingOp built without the check of its terms
AcceptAny(symp, coeffs) == ACResult(TRUE, "", PauliwordOp(symp, coeffs))

\* AntiCommutingOp.__init__: the object, or the assertion it raises
AntiCommutingOp(symp, coeffs) ==
    IF IsAntiCommuting(PauliwordOp(symp, coeffs))
    THEN ACResult(TRUE, "", PauliwordOp(symp, coeffs))
    ELSE ACResult(FALSE, NotAntiCommuting, <<>>)

Reinit(op) == AntiCommutingOp(symp_matrix(op), coeff_vec(op))

\* the target moved to the top; the swapped operator is constructed anew
reorder(AC_op, s_index) ==
    IF s_index # 0 THEN Reinit(Swap(AC_op, 1, s_index + 1)) ELSE ACResult(TRUE, "", AC_op)

partition_reordered(r, gamma_l, X_sk_rotations, R_LCU, up_method) ==
    IF ~r.ok THEN UPRaised(r.err, X_sk_rotations, R_LCU)
    ELSE partition_by(r.op, gamma_l, X_sk_rotations, R_LCU, up_method)

partition_from(self, gamma_l, X_sk_rotations, R_LCU, s_index, up_method) ==
    partition_reordered(reorder(Normalised(self, gamma_l), s_index), gamma_l,
                        X_sk_rotations, R_LCU, up_method)

\* the single-term return with the norm of the normalised operator
single_term_unit(AC_op, gamma_l, X_sk_rotations, R_LCU) ==
    UPResult(TRUE, "", AC_op, "None", CNorm(coeff_vec(AC_op)), AC_op, X_sk_rotations, R_LCU)

\* the return for a single term: the normalised term, no rotation, and the
\* norm taken before normalising
single_term(AC_op, gamma_l, X_sk_rotations, R_LCU) ==
    UPResult(TRUE, "", AC_op, "None", gamma_l, AC_op, X_sk_rotations, R_LCU)

\* unitary_partitioning on the receiver self with caches X_sk_rotations and
\* R_LCU; s_index = None selects the least dense term of self
unitary_partitioning(self, X_sk_rotations, R_LCU, s_index, up_method) ==
    IF Len(self) = 1
    THEN single_term(Normalised(self, CNorm(coeff_vec(self))), CNorm(coeff_vec(self)),
                     X_sk_rotations, R_LCU)
    ELSE IF ~IsZero(SumIm(coeff_vec(self)))
    THEN UPRaised("AssertionError: cannot apply unitary partitioning to operator with complex coeffs",
                  X_sk_rotations, R_LCU)
    ELSE partition_from(self, CNorm(coeff_vec(self)), X_sk_rotations, R_LCU,
                        IF s_index = NoIndex THEN get_least_dense_term_index(self)
                        ELSE s_index,
                        up_method)

\* R.dagger
dagger(R) == [i \in 1..Len(R) |-> Term(R[i].p, CConj(R[i].c))]

AntiBit(P, R) == IF Commutes(P, R) THEN 0 ELSE 1

\* x * (-1)^k
CTimesSign(x, k) == IF k % 2 = 0 THEN x ELSE CNeg(x)

\* coeff1 + coeff2, without sign2
overall_coeff_unsigned(ci, cj, ca, k) ==
    CAdd(CMul(CMul(ci, ca), CConj(cj)), CMul(CMul(cj, ca), CConj(ci)))

\* coeff1 + sign2 * coeff2 of the inner loop
overall_coeff(ci, cj, ca, k) ==
    CAdd(CMul(CMul(ci, ca), CConj(cj)), CTimesSign(CMul(CMul(cj, ca), CConj(ci)), k))

cross_term(PiPa, Pj, coeff) ==
    IF CIsZero(coeff) THEN <<>> ELSE <<TermMul(PiPa, Term(Pj, coeff))>>

cross_terms(Pa, R, i, PiPa) ==
    [d \in 1..(Len(R) - i) |->
        cross_term(PiPa, R[i + d].p,
                   overall_coeff(R[i].c, R[i + d].c, Pa.c,
                                 AntiBit(Pa.p, R[i].p) + AntiBit(Pa.p, R[i + d].p)
                                 + AntiBit(R[i].p, R[i + d].p)))]

\* the terms the loops of conjugate_Pop_with_R collect for row a of Pop and
\* row i of R
ConjugationTerms(Pa, R, i) ==
    <<Term(Pa.p, CTimesSign(CMul(CMul(R[i].c, CConj(R[i].c)), Pa.c),
                            AntiBit(Pa.p, R[i].p)))>>
    \o Flatten(cross_terms(Pa, R, i, TermMul(Term(R[i].p, COne), Term(Pa.p, COne))))

conjugate_Pop_with_R(Pop, R) ==
    IF Len(Pop) = 1 THEN cleanup(OpMul(OpMul(R, Pop), dagger(R)))
    ELSE cleanup(Flatten([a \in 1..Len(Pop) |->
                    Flatten([i \in 1..Len(R) |-> ConjugationTerms(Pop[a], R, i)])]))

\* A rotation by theta about the Pauli X leaves a commuting term alone and
\* sends an anticommuting term P to cos(theta) P + sin(theta) (-i P X)
rotate_term(t, rot) ==
    IF Commutes(t.p, rot.X_sk.p) THEN <<t>>
    ELSE <<Term(t.p, CScale(t.c, rot.theta_sk.c)),
           TermMul(Term(t.p, CTimesI(CScale(t.c, rot.theta_sk.s), 3)),
                   Term(rot.X_sk.p, COne))>>

rotate_by(op, rot) == cleanup(Flatten([t \in 1..Len(op) |-> rotate_term(op[t], rot)]))

\* perform_rotations: the rotations applied one after the other, in order
RECURSIVE perform_rotations(_, _)
perform_rotations(op, rots) ==
    IF rots = <<>> THEN op
    ELSE perform_rotations(rotate_by(op, Head(rots)), Tail(rots))

(***************************************************************************)
(* The search strategies of from_hamiltonian (noncontextual_op.py, lines   *)
(* 89-175).                                                                *)
(***************************************************************************)
\* np.roll(np.arange(N), -n), as 1-based indices
roll(N, n) == [i \in 1..N |-> ((i - 1 + n) % N) + 1]

RECURSIVE greedy_add(_, _)

greedy_keep(noncontextual_operator, noncon_check, rest) ==
    IF is_noncontextual(noncon_check) THEN greedy_add(noncon_check, rest)
    ELSE greedy_add(noncontextual_operator, rest)

\* the inner loop of _dfs_noncontextual_op: add each term that keeps the
\* running operator noncontextual
greedy_add(noncontextual_operator, rest) ==
    IF rest = <<>> THEN noncontextual_operator
    ELSE greedy_keep(noncontextual_operator,
                     OpAdd(noncontextual_operator, <<Head(rest)>>), Tail(rest))

\* one pass of the while loop, for offset n
dfs_candidate(operator, n) ==
    greedy_add(empty(n_qubits(operator)), Rows(operator, roll(Len(operator), n)))

\* np.sum(abs(x.coeff_vec))
RECURSIVE SumAbs(_)
SumAbs(op) ==
    IF op = <<>> THEN Zero ELSE SAdd(SSqrt(MagSq(Head(op).c)), SumAbs(Tail(op)))

\* sorted(ops, key)[0] for a key to be maximised: the sort is stable, so it
\* is the first operator of greatest key
RECURSIVE FirstMaxFrom(_, _, _)
FirstMaxFrom(keys, best, i) ==
    IF i > Len(keys) THEN best
    ELSE IF RLess(keys[best], keys[i]) THEN FirstMaxFrom(keys, i, i + 1)
    ELSE FirstMaxFrom(keys, best, i + 1)

dfs_key(strategy, op) == IF strategy = "magnitude" THEN SumAbs(op) ELSE I2S(Len(op))

dfs_keys(noncontextual_ops, strategy) ==
    [k \in 1..Len(noncontextual_ops) |-> dfs_key(strategy, noncontextual_ops[k])]

\* the candidate of offset 0, whatever its key
dfs_first(noncontextual_ops, strategy) == noncontextual_ops[1]

dfs_select(noncontextual_ops, strategy) ==
    noncontextual_ops[FirstMaxFrom(dfs_keys(noncontextual_ops, strategy), 1, 2)]

\* what follows the loop of _dfs_noncontextual_op
dfs_return(noncontextual_ops, strategy) ==
    IF strategy \notin {"magnitude", "largest"}
    THEN Raised("ValueError: Unrecognised noncontextual operator strategy.")
    ELSE IF noncontextual_ops = <<>>
    THEN Raised("IndexError: list index out of range")
    ELSE from_PauliwordOp(dfs_select(noncontextual_ops, strategy))

diag_first_from(Hin, d) ==
    IF ~d.ok THEN d
    ELSE from_PauliwordOp(greedy_add(d.op.terms, sort_magnitude(OpSub(Hin, d.op.terms))))

\* _diag_first_noncontextual_op
diag_first_noncontextual_op(Hin) == diag_first_from(Hin, diag_noncontextual_op(Hin))

pad(adjmat, k, adjmat_vector) ==
    [r \in 1..(k + 1) |-> [c \in 1..(k + 1) |->
        IF r = k + 1 THEN adjmat_vector[c]
        ELSE IF c = k + 1 THEN adjmat_vector[r]
        ELSE adjmat[r][c]]]

\* a padding that takes the new term to commute with every accepted term
adjmat_padded_commuting(operator, noncon_indices, adjmat, index) ==
    pad(adjmat, Len(adjmat), [c \in 1..(Len(adjmat) + 1) |-> TRUE])

\* one pass of the loop of _single_sweep_noncontextual_operator, for the
\* term at position index + 1 (0-based) of operator: the padded matrix
adjmat_padded(operator, noncon_indices, adjmat, index) ==
    pad(adjmat, Len(adjmat),
        Append(commutes_termwise(operator[index + 2], Rows(operator, noncon_indices)), TRUE))

\* update_sector: a generator without X-support takes the sign the reference
\* state gives it, any other is left unassigned (0)
update_sector(gens, ref_state) ==
    [j \in 1..Len(gens) |->
        IF HasXSupport(gens[j].p) THEN 0
        ELSE IF Cardinality({q \in 1..Len(ref_state) : ZBit(gens[j].p[q]) /\ ref_state[q] = 1}) % 2 = 0
             THEN 1 ELSE -1]

(***************************************************************************)
(* The state machine.  One NoncontextualOp is built from an input H by one *)
(* of the constructors (Spec) and, once built, is solved and has its       *)
(* clique operator updated (SpecSolve); one AntiCommutingOp receives a     *)
(* sequence of unitary_partitioning calls (SpecUP).  The module-level      *)
(* function conjugate_Pop_with_R is applied to an operator and a rotation  *)
(* operator (SpecConj), the parallel map of energy_via_brute_force runs    *)
(* its workers in any order (SpecBrute), and runs of VQE_Driver.run share  *)
(* the interpreter's global counter (SpecVQE).                             *)
(***************************************************************************)
VARIABLES
    H,                  \* the input operator
    pc,                 \* "start", "dfs", "sweep", "ready" (the object exists), "failed"
    err,                \* the exception the last operation raised, "" if none
    strategy,           \* the strategy of the construction under way or done
    NC_op,              \* the constructed NoncontextualOp (NoOp before)
    ev_assignment,      \* symmetry_generators.coeff_vec
    clique_operator,    \* self.clique_operator
    energy,             \* self.energy, once set
    mapped_clique_rep,  \* the outputs of update_clique_representative_operator
    unitary_partitioning_rotations,
    clique_normalization,
    last,               \* what the last operation on the object was given and returned,
                        \* with the optimum its optimiser reported
    ops,                \* how many operations the object has received
    operator,           \* locals of the two sweep constructors
    noncontextual_ops,
    n,
    clock,
    runtime,
    noncon_indices,
    adjmat,
    index,
    AC,                 \* the AntiCommutingOp that is partitioned
    X_sk_rotations,     \* its caches
    R_LCU,
    request,            \* the arguments of its last unitary_partitioning call
    ret,                \* what that call returned
    calls,              \* how many calls it has received
    X_sk_call,          \* the call that filled each cache (0: none)
    R_LCU_call,
    R_op,               \* the arguments (H is Pop) and the result of conjugate_Pop_with_R
    rot_H,
    solver,             \* the NoncontextualSolver: its fixed_ev_mask and fixed_eigvals
    pool_rows,          \* the rows of nu_list handed to pool.map
    pool_results,       \* the result slot of each row, filled as its worker completes
    worker_op,          \* the copy of NC_op each worker process holds
    found,              \* what energy_via_brute_force returned
    counter,            \* the global 'counter' of variational_optimization
    run_pc,             \* per run of VQE_Driver.run: where the run is
    run_key,            \* per run: the local 'counter' of fun
    vqe_history         \* per run: the keys of vqe_history in recording order

ncVars == <<NC_op, ev_assignment, clique_operator, energy, mapped_clique_rep,
            unitary_partitioning_rotations, clique_normalization, last, ops>>

dfsVars == <<noncontextual_ops, n, clock, runtime>>

sweepVars == <<noncon_indices, adjmat, index>>

upVars == <<AC, X_sk_rotations, R_LCU, request, ret, calls, X_sk_call, R_LCU_call>>

conjVars == <<R_op, rot_H>>

poolVars == <<solver, pool_rows, pool_results, worker_op, found>>

vqeVars == <<counter, run_pc, run_key, vqe_history>>

driverVars == <<conjVars, poolVars, vqeVars>>

vars == <<H, pc, err, strategy, operator, ncVars, dfsVars, sweepVars, upVars, driverVars>>

\* the inputs: the Pauli terms H draws on, each with its coefficient
Pool == << <<"Z", "I">>, <<"X", "I">>, <<"I", "Z">>,
           <<"X", "X">>, <<"Z", "Z">>, <<"Y", "Y">> >>

PoolCoeff == <<1, 1, -1, -2, 1, 3>>

MaxTerms == 5

IsInjective(f) == \A i, j \in DOMAIN f : i # j => f[i] # f[j]

IsIncreasing(f) == \A i, j \in DOMAIN f : i < j => f[i] < f[j]

IsDecreasing(f) == \A i, j \in DOMAIN f : i < j => f[i] > f[j]

Selections == UNION {[1..k -> 1..Len(Pool)] : k \in 1..MaxTerms}

PoolRows(f) == [i \in 1..Len(f) |-> Term(Pool[f[i]], CInt(PoolCoeff[f[i]]))]

\* H: one to MaxTerms distinct terms of the pool, in pool order or reversed,
\* and operators with three cliques whose representatives multiply to one
\* another (X, Z and Y on one qubit)
Hamiltonians ==
    {PoolRows(f) : f \in {g \in Selections : IsIncreasing(g) \/ IsDecreasing(g)}}
    \cup {<<Term(<<"I", "Z">>, CInt(-1)), Term(<<"X", "I">>, CInt(1)),
            Term(<<"Z", "I">>, CInt(1)), Term(<<"Y", "I">>, CInt(2))>>,
          <<Term(<<"Y", "Z">>, CInt(2)), Term(<<"Y", "I">>, CInt(1)),
            Term(<<"Z", "I">>, CInt(1)), Term(<<"X", "I">>, CInt(1)),
            Term(<<"I", "Z">>, CInt(-1))>>}

NoEnergy == [set |-> FALSE, s0 |-> Zero, sq |-> Zero]

SetEnergy(e) == [set |-> TRUE, s0 |-> e.s0, sq |-> e.sq]

NoRotations == [kind |-> "None", list |-> <<>>]

NoLast == [op |-> "none", completed |-> FALSE, strategy |-> "", ref_state |-> <<>>,
           nu |-> <<>>, before |-> <<>>, optimum |-> <<>>]

NoRet == UPResult(FALSE, "", <<>>, "None", Zero, <<>>, <<>>, None)

NoRequest == [s_index |-> NoIndex, up_method |-> ""]

ncInit ==
    /\ NC_op = NoOp
    /\ ev_assignment = <<>>
    /\ clique_operator = <<>>
    /\ energy = NoEnergy
    /\ mapped_clique_rep = <<>>
    /\ unitary_partitioning_rotations = NoRotations
    /\ clique_normalization = Zero
    /\ last = NoLast
    /\ ops = 0

loopInit ==
    /\ operator = <<>>
    /\ noncontextual_ops = <<>>
    /\ n = 0
    /\ clock = 0
    /\ runtime = 0
    /\ noncon_indices = <<>>
    /\ adjmat = <<>>
    /\ index = 0

upIdle ==
    /\ AC = <<>>
    /\ X_sk_rotations = <<>>
    /\ R_LCU = None
    /\ request = NoRequest
    /\ ret = NoRet
    /\ calls = 0
    /\ X_sk_call = 0
    /\ R_LCU_call = 0

conjIdle ==
    /\ R_op = <<>>
    /\ rot_H = <<>>

poolIdle ==
    /\ solver = <<>>
    /\ pool_rows = <<>>
    /\ pool_results = <<>>
    /\ worker_op = <<>>
    /\ found = <<>>

vqeIdle ==
    /\ counter = -1
    /\ run_pc = <<>>
    /\ run_key = <<>>
    /\ vqe_history = <<>>

driverIdle == conjIdle /\ poolIdle /\ vqeIdle

Init ==
    /\ H \in Hamiltonians
    /\ pc = "start"
    /\ err = ""
    /\ strategy = ""
    /\ ncInit
    /\ loopInit
    /\ upIdle
    /\ driverIdle

\* the object a successful constructor call leaves, or the failure it raises
Construct(r, name) ==
    /\ strategy' = name
    /\ pc' = IF r.ok THEN "ready" ELSE "failed"
    /\ err' = r.err
    /\ NC_op' = r.op
    /\ ev_assignment' = [j \in 1..Len(r.op.symmetry_generators) |-> 1]
    /\ clique_operator' = r.op.clique_operator
    /\ UNCHANGED <<H, energy, mapped_clique_rep, unitary_partitioning_rotations,
                   clique_normalization, last, ops, upVars>>

\* NoncontextualOp.from_PauliwordOp(H)
FromPauliwordOp ==
    /\ pc = "start"
    /\ Construct(from_PauliwordOp(H), "from_PauliwordOp")
    /\ UNCHANGED <<operator, dfsVars, sweepVars, driverVars>>

\* from_hamiltonian with override_noncontextuality_check = False on a
\* noncontextual H: the strategy is ignored
FromHamiltonianNoOverride ==
    /\ pc = "start"
    /\ is_noncontextual(H)
    /\ Construct(from_PauliwordOp(H), "no_override")
    /\ UNCHANGED <<operator, dfsVars, sweepVars, driverVars>>

FromHamiltonianDiag ==
    /\ pc = "start"
    /\ Construct(diag_noncontextual_op(H), "diag")
    /\ UNCHANGED <<operator, dfsVars, sweepVars, driverVars>>

\* the bases offered to strategy 'basis'; the first stands for basis=None
Bases == << <<>>,
            <<Term(Pool[1], COne), Term(Pool[3], COne)>>,
            <<Term(Pool[3], COne), Term(Pool[1], COne), Term(Pool[2], COne)>>,
            <<Term(Pool[5], COne), Term(Pool[4], COne)>> >>

FromHamiltonianBasis ==
    /\ pc = "start"
    /\ \E b \in 1..Len(Bases) :
          Construct(from_basis_noncontextual_op(H, Bases[b], b # 1),
                    IF b = 1 THEN "basis_None" ELSE "basis")
    /\ UNCHANGED <<operator, dfsVars, sweepVars, driverVars>>

FromHamiltonianUnknown ==
    /\ pc = "start"
    /\ Construct(Raised("ValueError: Unrecognised noncontextual operator strategy"), "unknown")
    /\ UNCHANGED <<operator, dfsVars, sweepVars, driverVars>>

DiagFirst ==
    /\ pc = "start"
    /\ Construct(diag_first_noncontextual_op(H), "diag_first")
    /\ UNCHANGED <<operator, dfsVars, sweepVars, driverVars>>

\* _dfs_noncontextual_op, one action per pass of its loop.  clock is the time
\* elapsed since start_time, in the unit of runtime; a pass takes any time.
MaxRuntime == 2

DFSStrategies == {"DFS_magnitude", "DFS_largest", "DFS_other"}

\* _, strategy = strategy.split('_')
split(st) ==
    CASE st \in {"DFS_magnitude", "SingleSweep_magnitude"} -> "magnitude"
      [] st = "DFS_largest" -> "largest"
      [] st = "SingleSweep_random" -> "random"
      [] st = "SingleSweep_CurrentOrder" -> "CurrentOrder"
      [] OTHER -> "other"

DFSStart ==
    /\ pc = "start"
    /\ \E st \in DFSStrategies, rt \in 0..MaxRuntime :
          /\ strategy' = st
          /\ runtime' = rt
    /\ pc' = "dfs"
    /\ operator' = sort_magnitude(H)
    /\ noncontextual_ops' = <<>>
    /\ n' = 0
    /\ clock' = 0
    /\ UNCHANGED <<H, err, ncVars, sweepVars, upVars, driverVars>>

DFSSweep ==
    /\ pc = "dfs"
    /\ n < Len(H) /\ clock < runtime
    /\ noncontextual_ops' = Append(noncontextual_ops, dfs_candidate(operator, n))
    /\ n' = n + 1
    /\ \E t \in clock..MaxRuntime : clock' = t
    /\ UNCHANGED <<H, pc, err, strategy, operator, runtime, ncVars, sweepVars, upVars, driverVars>>

DFSSelect ==
    /\ pc = "dfs"
    /\ ~(n < Len(H) /\ clock < runtime)
    /\ Construct(dfs_return(noncontextual_ops, split(strategy)), strategy)
    /\ UNCHANGED <<operator, dfsVars, sweepVars, driverVars>>

\* _single_sweep_noncontextual_operator, one action per pass of its loop
SweepStrategies == {"SingleSweep_magnitude", "SingleSweep_random", "SingleSweep_CurrentOrder"}

\* the orders np.random.shuffle may leave
Orders(N) == {f \in [1..N -> 1..N] : IsInjective(f)}

SweepStart ==
    /\ pc = "start"
    /\ \E st \in SweepStrategies :
          /\ strategy' = st
          /\ \/ split(st) = "magnitude" /\ operator' = sort_magnitude(H)
             \/ split(st) = "random" /\ \E order \in Orders(Len(H)) : operator' = Rows(H, order)
             \/ split(st) = "CurrentOrder" /\ operator' = H
    /\ pc' = "sweep"
    /\ noncon_indices' = <<1>>
    /\ adjmat' = << <<TRUE>> >>
    /\ index' = 0
    /\ UNCHANGED <<H, err, ncVars, dfsVars, upVars, driverVars>>

SweepUnknown ==
    /\ pc = "start"
    /\ Construct(Raised("ValueError: Unrecognised strategy, must be one of magnitude, random or CurrentOrder"),
                 "SingleSweep_other")
    /\ UNCHANGED <<operator, dfsVars, sweepVars, driverVars>>

SweepAccept(padded) ==
    IF check_adjmat_noncontextual(padded)
    THEN /\ noncon_indices' = Append(noncon_indices, index + 2)
         /\ adjmat' = padded
    ELSE UNCHANGED <<noncon_indices, adjmat>>

SweepStep ==
    /\ pc = "sweep"
    /\ index < Len(operator) - 1
    /\ SweepAccept(adjmat_padded(operator, noncon_indices, adjmat, index))
    /\ index' = index + 1
    /\ UNCHANGED <<H, pc, err, strategy, operator, ncVars, dfsVars, upVars, driverVars>>

SweepFinish ==
    /\ pc = "sweep"
    /\ index = Len(operator) - 1
    /\ Construct(from_PauliwordOp(Rows(operator, noncon_indices)), strategy)
    /\ UNCHANGED <<operator, dfsVars, sweepVars, driverVars>>

(***************************************************************************)
(* solve and update_clique_representative_operator (noncontextual_op.py,   *)
(* lines 312-378).                                                         *)
(***************************************************************************)
Rotations(up) == [kind |-> up.rotations, list |-> up.X_sk_rotations]

Updated(ok, e, cliqueop, up) == [ok |-> ok, err |-> e, clique_operator |-> cliqueop, up |-> up]

update_result(with, up) ==
    IF ~up.ok THEN Updated(FALSE, up.err, with, NoRet)
    ELSE Updated(TRUE, "", up.AC_op, up)

\* the clique operator is a plain PauliwordOp when there is no clique
update_partition(NC, with, s_index) ==
    IF NC.n_cliques = 0
    THEN Updated(FALSE, "AttributeError: 'PauliwordOp' object has no attribute 'unitary_partitioning'",
                 with, NoRet)
    ELSE update_result(with, unitary_partitioning(with, <<>>, None, s_index, "seq_rot"))

\* self.clique_operator.coeff_vec = si: the amplitudes are assigned to the
\* rows of clique_operator by position
update_amplitudes(NC, si, cliqueop, clique_index) ==
    update_partition(NC, [i \in 1..Len(cliqueop) |-> Term(cliqueop[i].p, CReal(si[i]))],
                     IF clique_index = NoIndex THEN 0 ELSE clique_index)

\* update_clique_representative_operator on an object whose generators hold
\* ev: what it leaves in clique_operator and in its three outputs
update_clique_representative_operator(NC, ev, cliqueop, clique_index) ==
    update_amplitudes(NC, get_symmetry_contributions(NC, ev).si, cliqueop, clique_index)

RefStates(NC) == [1..n_qubits(NC.terms) -> {0, 1}]

\* ref_state = None
NoRef == <<>>

SolveStrategies == {"brute_force", "binary_relaxation", "brute_force_PUSO",
                    "brute_force_QUSO", "annealing_PUSO", "annealing_QUSO"}

\* symmetry_generators.coeff_vec once the reference state, if any, is applied
Sector(NC, ev, ref_state) ==
    IF ref_state = NoRef THEN ev ELSE update_sector(NC.symmetry_generators, ref_state)

IsSet(v) == v # 0

solver_over(NC, ev1, given) ==
    NoncontextualSolver(NC, [j \in 1..Len(ev1) |-> ev1[j] # 0], SelectSeq(ev1, IsSet), given)

NC_solver(NC, ev, ref_state) == solver_over(NC, Sector(NC, ev, ref_state), ref_state # NoRef)

Returned(r) == [ok |-> TRUE, err |-> "", nu |-> r.nu, energy |-> r.energy]

\* the branch of solve on strategy: the solver's answer for the optimum x
\* of the relaxation and the solution sol of the spin optimiser, COST being
\* the solver's get_cost_func()
solver_answer(S, st, x, sol, COST) ==
    IF st = "brute_force" THEN Returned(energy_via_brute_force(S))
    ELSE IF st = "binary_relaxation" THEN Returned(energy_via_relaxation(S, x))
    ELSE IF st \in SolveStrategies THEN xUSO_over(S, sol, COST)
    ELSE Failure("ValueError: Unknown optimization strategy: other")

\* the clique operator updated from the eigenvalues held before the solve
solve_update_stale(NC, nu, before, cliqueop) ==
    update_clique_representative_operator(NC, before, cliqueop, NoIndex)

\* the last two statements of solve: the eigenvalues are set, then the
\* clique operator is updated from them
solve_update(NC, nu, before, cliqueop) ==
    update_clique_representative_operator(NC, nu, cliqueop, NoIndex)

MaxOps == 2

Outputs(u) ==
    IF u.ok
    THEN /\ mapped_clique_rep' = u.up.Ps
         /\ unitary_partitioning_rotations' = Rotations(u.up)
         /\ clique_normalization' = u.up.gamma_l
    ELSE UNCHANGED <<mapped_clique_rep, unitary_partitioning_rotations,
                     clique_normalization>>

SolveUpdated(st, ref_state, optimum, a, u) ==
    /\ err' = u.err
    /\ energy' = SetEnergy(a.energy)
    /\ ev_assignment' = a.nu
    /\ clique_operator' = u.clique_operator
    /\ last' = [op |-> "solve", completed |-> u.ok, strategy |-> st,
                ref_state |-> ref_state, nu |-> a.nu, before |-> ev_assignment,
                optimum |-> optimum]
    /\ Outputs(u)

SolveAnswered(st, ref_state, optimum, a) ==
    IF ~a.ok
    THEN /\ err' = a.err
         /\ ev_assignment' = Sector(NC_op, ev_assignment, ref_state)
         /\ last' = [op |-> "solve", completed |-> FALSE, strategy |-> st,
                     ref_state |-> ref_state, nu |-> <<>>, before |-> ev_assignment,
                     optimum |-> optimum]
         /\ UNCHANGED <<energy, clique_operator, mapped_clique_rep,
                        unitary_partitioning_rotations, clique_normalization>>
    ELSE SolveUpdated(st, ref_state, optimum, a,
                      solve_update(NC_op, a.nu, ev_assignment, clique_operator))

SolveWith(ref_state, S, k, COST) ==
    \E st \in SolveStrategies \cup {"other"} :
        \E x \in (IF st = "binary_relaxation" THEN [1..k -> Grid] ELSE {<<>>}),
           sol \in (IF st \in SolveStrategies \ {"brute_force", "binary_relaxation"}
                    THEN [1..Len(S.fixed_ev_mask) -> {-1, 1}] ELSE {<<>>}) :
            SolveAnswered(st, ref_state, x \o sol, solver_answer(S, st, x, sol, COST))

SolveFor(ref_state, S) ==
    SolveWith(ref_state, S, NFree(S.fixed_ev_mask), get_cost_func(S))

Solve ==
    /\ pc = "ready"
    /\ ops < MaxOps
    /\ \E ref_state \in RefStates(NC_op) \cup {NoRef} :
          SolveFor(ref_state, NC_solver(NC_op, ev_assignment, ref_state))
    /\ ops' = ops + 1
    /\ UNCHANGED <<H, pc, strategy, NC_op, operator, dfsVars, sweepVars, upVars, driverVars>>

UpdateOutcome(u) ==
    /\ err' = u.err
    /\ clique_operator' = u.clique_operator
    /\ last' = [op |-> "update", completed |-> u.ok, strategy |-> "",
                ref_state |-> NoRef, nu |-> <<>>, before |-> ev_assignment,
                optimum |-> <<>>]
    /\ Outputs(u)

\* update_clique_representative_operator called by the user
UpdateCliqueRep ==
    /\ pc = "ready"
    /\ ops < MaxOps
    /\ \E clique_index \in {NoIndex} \cup 0..(NC_op.n_cliques - 1) :
          UpdateOutcome(update_clique_representative_operator(
                            NC_op, ev_assignment, clique_operator, clique_index))
    /\ ops' = ops + 1
    /\ UNCHANGED <<H, pc, strategy, NC_op, ev_assignment, energy, operator,
                   dfsVars, sweepVars, upVars, driverVars>>

\* operators on three qubits with a clique and two symmetry generators, of
\* which one has X-support: it comes second in the first operator and first
\* in the second
Wider == {<<Term(<<"I", "Z", "I">>, CInt(1)), Term(<<"I", "I", "X">>, CInt(1)),
            Term(<<"X", "I", "I">>, CInt(1)), Term(<<"Z", "I", "I">>, CInt(2))>>,
          <<Term(<<"I", "X", "I">>, CInt(1)), Term(<<"I", "I", "Z">>, CInt(1)),
            Term(<<"X", "I", "I">>, CInt(1)), Term(<<"Z", "I", "I">>, CInt(2))>>}

SolveInputs == {PoolRows(f) : f \in {g \in Selections : IsIncreasing(g)}} \cup Wider

\* the objects from_PauliwordOp builds from the inputs
Built == {r \in {from_PauliwordOp(h) : h \in SolveInputs} : r.ok}

InitSolve ==
    /\ NC_op \in {r.op : r \in Built}
    /\ H = NC_op.terms
    /\ pc = "ready"
    /\ err = ""
    /\ strategy = "from_PauliwordOp"
    /\ ev_assignment = [j \in 1..Len(NC_op.symmetry_generators) |-> 1]
    /\ clique_operator = NC_op.clique_operator
    /\ energy = NoEnergy
    /\ mapped_clique_rep = <<>>
    /\ unitary_partitioning_rotations = NoRotations
    /\ clique_normalization = Zero
    /\ last = NoLast
    /\ ops = 0
    /\ loopInit
    /\ upIdle
    /\ driverIdle

NextSolve == Solve \/ UpdateCliqueRep

SpecSolve == InitSolve /\ [][NextSolve]_vars

(***************************************************************************)
(* A sequence of unitary_partitioning calls on one AntiCommutingOp         *)
(* (anticommuting_op.py, lines 10-20 and 124-177).                         *)
(***************************************************************************)
Clique(symp, coeffs) == PauliwordOp(symp, [i \in 1..Len(coeffs) |-> CInt(coeffs[i])])

ComplexClique(symp, re, im) ==
    PauliwordOp(symp, [i \in 1..Len(re) |-> Cx(I2S(re[i]), I2S(im[i]))])

\* the anticommuting sets that are partitioned
Cliques ==
    { Clique(<< <<"X", "I">>, <<"Z", "I">> >>, <<3, -4>>),
      Clique(<< <<"Z", "I">>, <<"X", "X">> >>, <<-4, 3>>),
      Clique(<< <<"X", "I">>, <<"Z", "I">>, <<"Y", "I">> >>, <<1, 2, -2>>),
      Clique(<< <<"Y", "I">>, <<"Z", "I">>, <<"X", "I">> >>, <<0, 0, 1>>),
      Clique(<< <<"X", "I">>, <<"Z", "I">> >>, <<1, 1>>),
      Clique(<< <<"Z", "Z">> >>, <<2>>),
      Clique(<< <<"Z", "Z">> >>, <<-2>>),
      Clique(<< <<"Z", "Z">> >>, <<0>>),
      Clique(<< <<"X", "I", "I", "X">>, <<"I", "Z", "Z", "Z">> >>, <<1, 1>>),
      ComplexClique(<< <<"X", "I">>, <<"Z", "I">> >>, <<2, 1>>, <<1, -1>>),
      ComplexClique(<< <<"X", "I">>, <<"Z", "I">> >>, <<1, 1>>, <<1, 0>>) }

\* operators in which two distinct terms commute
NotCliques ==
    { Clique(<< <<"X", "I">>, <<"I", "Z">> >>, <<1, 1>>),
      Clique(<< <<"X", "I">>, <<"Z", "I">>, <<"X", "X">> >>, <<1, 2, 3>>),
      Clique(<< <<"Z", "I">>, <<"Z", "I">> >>, <<1, 2>>) }

\* __init__ and the three classmethods, which all end in cls(symp, coeffs)
Constructors == {"AntiCommutingOp", "from_list", "from_dictionary", "from_PauliwordOp"}

MaxCalls == 3

\* whether the call gets as far as the branch on up_method
reaches_method(self) ==
    Len(self) >= 2 /\ IsZero(SumIm(coeff_vec(self)))

Made(r, how) ==
    /\ strategy' = how
    /\ pc' = IF r.ok THEN "clique" ELSE "failed"
    /\ err' = r.err
    /\ AC' = r.op
    /\ UNCHANGED <<H, operator, ncVars, dfsVars, sweepVars, X_sk_rotations, R_LCU,
                   request, ret, calls, X_sk_call, R_LCU_call, driverVars>>

\* an AntiCommutingOp is constructed from the terms H
NewAntiCommutingOp ==
    /\ pc = "new"
    /\ \E how \in Constructors : Made(AntiCommutingOp(symp_matrix(H), coeff_vec(H)), how)

\* a copy that shares its arrays with the original
copy_is_shallow == TRUE

\* self.copy(): the copy is an independent object and shares no array with
\* the receiver
copy_shares_arrays == FALSE

\* the receiver's terms once the call has worked on AC_op = self.copy(): the
\* division rebinds the copy's coeff_vec, and the rows of the copy's symp_matrix
\* are exchanged in place, which reaches the receiver only through a shared
\* array
receiver_after(self, s_index) ==
    IF copy_shares_arrays /\ reaches_method(self) /\ s_index # 0
    THEN PauliwordOp(symp_matrix(Swap(self, 1, s_index + 1)), coeff_vec(self))
    ELSE self

Called(r, s_index, up_method, reached, after) ==
    /\ request' = [s_index |-> s_index, up_method |-> up_method]
    /\ ret' = r
    /\ X_sk_rotations' = r.X_sk_rotations
    /\ R_LCU' = r.R_LCU
    /\ calls' = calls + 1
    /\ X_sk_call' = IF reached /\ up_method = "seq_rot" THEN calls + 1 ELSE X_sk_call
    /\ R_LCU_call' = IF reached /\ up_method = "LCU" THEN calls + 1 ELSE R_LCU_call
    /\ AC' = after
    /\ UNCHANGED <<H, pc, err, strategy, operator, ncVars, dfsVars, sweepVars, driverVars>>

Targets(self) == {NoIndex} \cup 0..(Len(self) - 1)

Call(s_index, up_method) ==
    Called(unitary_partitioning(AC, X_sk_rotations, R_LCU, s_index, up_method),
           s_index, up_method, reaches_method(AC),
           receiver_after(AC, IF s_index = NoIndex THEN get_least_dense_term_index(AC)
                              ELSE s_index))

PartitionSeqRot ==
    /\ pc = "clique"
    /\ calls < MaxCalls
    /\ \E s_index \in Targets(AC) : Call(s_index, "seq_rot")

PartitionLCU ==
    /\ pc = "clique"
    /\ calls < MaxCalls
    /\ \E s_index \in Targets(AC) : Call(s_index, "LCU")

PartitionUnknown ==
    /\ pc = "clique"
    /\ calls < MaxCalls
    /\ \E s_index \in Targets(AC) : Call(s_index, "other")

\* the terms an AntiCommutingOp is about to be constructed from; a new
\* object has both caches empty
InitUP ==
    /\ H \in Cliques \cup NotCliques
    /\ AC = <<>>
    /\ X_sk_rotations = <<>>
    /\ R_LCU = None
    /\ request = NoRequest
    /\ ret = NoRet
    /\ calls = 0
    /\ X_sk_call = 0
    /\ R_LCU_call = 0
    /\ pc = "new"
    /\ err = ""
    /\ strategy = ""
    /\ ncInit
    /\ loopInit
    /\ driverIdle

NextUP == NewAntiCommutingOp \/ PartitionSeqRot \/ PartitionLCU \/ PartitionUnknown

SpecUP == InitUP /\ [][NextUP]_vars

Next ==
    \/ FromPauliwordOp
    \/ FromHamiltonianNoOverride
    \/ FromHamiltonianDiag
    \/ FromHamiltonianBasis
    \/ FromHamiltonianUnknown
    \/ DiagFirst
    \/ DFSStart
    \/ DFSSweep
    \/ DFSSelect
    \/ SweepStart
    \/ SweepUnknown
    \/ SweepStep
    \/ SweepFinish

Spec == Init /\ [][Next]_vars


(***************************************************************************)
(* Properties of the constructors, checked under Spec.                     *)
(***************************************************************************)
\* Noncontextuality stated directly: among the terms that do not commute
\* with every term, commutation is transitive.
NotUniversalIn(op) ==
    {i \in 1..Len(op) : \E j \in 1..Len(op) : ~Commutes(op[i].p, op[j].p)}

CommutationTransitive(op) ==
    \A a, b, c \in NotUniversalIn(op) :
        Commutes(op[a].p, op[b].p) /\ Commutes(op[b].p, op[c].p)
            => Commutes(op[a].p, op[c].p)

TermsOfInput(op, Hin) == \A t \in 1..Len(op) : \E h \in 1..Len(Hin) : Hin[h] = op[t]

ContextualError == "AssertionError: Specified operator is contextual."

\* C1: a NoncontextualOp exists only once a constructor has succeeded, and
\* then it is noncontextual and each of its terms is a term of H with H's
\* coefficient; from_PauliwordOp on a contextual H raises the contextuality
\* error and leaves no object.
C1_OnlyNoncontextualObjects ==
    /\ NC_op.exists <=> pc = "ready"
    /\ pc = "ready" =>
          /\ CommutationTransitive(NC_op.terms)
          /\ TermsOfInput(NC_op.terms, H)
    /\ strategy = "from_PauliwordOp" /\ ~CommutationTransitive(H) =>
          /\ pc = "failed"
          /\ err = ContextualError

C1_ContextualInputRejected ==
    /\ strategy = "from_PauliwordOp"
    /\ ~CommutationTransitive(H)
    /\ Len(H) = 4
    /\ pc = "failed"
    /\ err = ContextualError

\* the blocks of the decomposition: 'symmetry' first, then the cliques
Blocks(NC) == <<NC.decomposed.symmetry>> \o NC.decomposed.cliques

Occurrences(blocks, P) ==
    {bk \in {<<b, k>> : b \in 1..Len(blocks), k \in 1..MaxTerms} :
        bk[2] <= Len(blocks[bk[1]]) /\ blocks[bk[1]][bk[2]].p = P}

InOneBlock(blocks, t) ==
    /\ Cardinality(Occurrences(blocks, t.p)) = 1
    /\ \A bk \in Occurrences(blocks, t.p) : blocks[bk[1]][bk[2]] = t

\* C2: the blocks symmetry, 0, ..., M-1 of a constructed object partition
\* its terms: each term lies in exactly one block, with its coefficient, and
\* the blocks together hold the terms of the operator and nothing else.
C2_BlocksPartitionTerms ==
    pc = "ready" =>
        /\ Len(NC_op.decomposed.cliques) = NC_op.n_cliques
        /\ \A t \in 1..Len(NC_op.terms) : InOneBlock(Blocks(NC_op), NC_op.terms[t])
        /\ Len(Flatten(Blocks(NC_op))) = Len(NC_op.terms)
        /\ Range(Flatten(Blocks(NC_op))) = Range(NC_op.terms)

C2_SymmetryAndCliques ==
    /\ pc = "ready"
    /\ NC_op.n_cliques >= 2
    /\ Len(NC_op.decomposed.symmetry) >= 1
    /\ \E k \in 1..NC_op.n_cliques : Len(NC_op.decomposed.cliques[k]) >= 2

\* the reference greedy sweep: the accepted set is rebuilt and re-checked
\* as a whole for every term
reference_keep(op, i, accepted) ==
    IF CommutationTransitive(Rows(op, Append(accepted, i))) THEN Append(accepted, i)
    ELSE accepted

RECURSIVE reference_sweep(_, _)
reference_sweep(op, upto) ==
    IF upto <= 1 THEN <<1>>
    ELSE reference_keep(op, upto, reference_sweep(op, upto - 1))

\* C7: at every step of the single sweep the accepted positions are those
\* of the reference greedy sweep over the terms seen so far, the padded
\* adjacency matrix is the adjacency matrix of the accepted terms built from
\* scratch, and the object returned holds the reference sweep's terms.
C7_SweepMatchesReference ==
    /\ pc = "sweep" =>
          /\ noncon_indices = reference_sweep(operator, index + 1)
          /\ adjmat = adjacency_matrix(Rows(operator, noncon_indices))
    /\ strategy \in SweepStrategies /\ pc # "sweep" =>
          /\ pc = "ready"
          /\ NC_op.terms = Rows(operator, reference_sweep(operator, Len(operator)))

C7_AcceptedAndRejected ==
    /\ pc = "sweep"
    /\ index = Len(operator) - 1
    /\ Len(noncon_indices) >= 3
    /\ Len(noncon_indices) < Len(operator)

\* the candidate set and the error of an empty selection
EmptySelection == "IndexError: list index out of range"

DFSReturns == strategy \in {"DFS_magnitude", "DFS_largest"} /\ pc \in {"ready", "failed"}

\* C8: whatever the budget, the sweep for offset 0 completes and a
\* candidate is returned: the search never ends with an empty candidate
\* set and never raises.
C8_BudgetNeverEmptiesCandidates ==
    DFSReturns => noncontextual_ops # <<>> /\ pc = "ready" /\ err = ""

C8_ZeroBudgetRaises ==
    /\ DFSReturns
    /\ runtime = 0
    /\ noncontextual_ops = <<>>
    /\ pc = "failed"
    /\ err = EmptySelection

\* the magnitude-sorted terms rotated by offset positions
Rotated(op, offset) == SubSeq(op, offset + 1, Len(op)) \o SubSeq(op, 1, offset)

IsMagnitudeSorted(op, Hin) ==
    /\ Len(op) = Len(Hin)
    /\ Range(op) = Range(Hin)
    /\ \A i, j \in 1..Len(op) : i < j => Abs(op[i].c.re.a) >= Abs(op[j].c.re.a)

ReferenceCandidate(op) == Rows(op, reference_sweep(op, Len(op)))

RECURSIVE Weight(_)
Weight(op) == IF op = <<>> THEN 0 ELSE Abs(Head(op).c.re.a) + Weight(Tail(op))

SelectionKey(op) == IF strategy = "DFS_magnitude" THEN Weight(op) ELSE Len(op)

IsFirstBest(cands, k) ==
    /\ \A j \in 1..Len(cands) : SelectionKey(cands[j]) <= SelectionKey(cands[k])
    /\ \A j \in 1..(k - 1) : SelectionKey(cands[j]) < SelectionKey(cands[k])

\* C9: candidate n is the greedy sweep over the magnitude-sorted terms
\* rotated by n, every completed candidate is kept, and the operator
\* returned is the first candidate of greatest total absolute coefficient
\* ('magnitude') or of greatest term count ('largest').
C9_CandidatesAndSelection ==
    strategy \in {"DFS_magnitude", "DFS_largest"} =>
        /\ IsMagnitudeSorted(operator, H)
        /\ Len(noncontextual_ops) = n
        /\ \A k \in 1..Len(noncontextual_ops) :
              SameOperator(noncontextual_ops[k],
                           ReferenceCandidate(Rotated(operator, k - 1)))
        /\ pc = "ready" =>
              \E k \in 1..Len(noncontextual_ops) :
                  /\ NC_op.terms = noncontextual_ops[k]
                  /\ IsFirstBest(noncontextual_ops, k)

C9_LaterCandidateSelected ==
    /\ strategy = "DFS_magnitude"
    /\ pc = "ready"
    /\ Len(noncontextual_ops) >= 3
    /\ NC_op.terms # noncontextual_ops[1]
    /\ Weight(noncontextual_ops[1]) < Weight(NC_op.terms)

IsDiagonal(t) == \A q \in 1..Len(t.p) : t.p[q] \in {"I", "Z"}

\* C10: strategy 'diag' always constructs, and the object holds exactly the
\* terms of H without X-support, with their coefficients, in H's order.
C10_DiagKeepsDiagonalTerms ==
    strategy = "diag" =>
        /\ pc = "ready"
        /\ NC_op.terms = SelectSeq(H, IsDiagonal)
        /\ CommutationTransitive(NC_op.terms)

C10_DiagExample ==
    /\ strategy = "diag"
    /\ H = <<Term(<<"Z", "I">>, CInt(1)), Term(<<"X", "I">>, CInt(1))>>
    /\ pc = "ready"
    /\ NC_op.terms = <<Term(<<"Z", "I">>, CInt(1))>>

\* the terms of largest coefficient magnitude of a clique
IsLargest(t, clique) ==
    /\ \E j \in 1..Len(clique) : clique[j] = t
    /\ \A j \in 1..Len(clique) : Abs(clique[j].c.re.a) <= Abs(t.c.re.a)

\* C17: a constructed object with M >= 1 cliques has a clique operator of M
\* terms, the k-th being a term of largest magnitude of clique k, carried
\* with the placeholder coefficient 1.
C17_RepresentativesWithUnitCoefficient ==
    pc = "ready" /\ NC_op.n_cliques >= 1 =>
        /\ Len(NC_op.clique_operator) = NC_op.n_cliques
        /\ \A k \in 1..NC_op.n_cliques :
              /\ \E t \in Range(NC_op.decomposed.cliques[k]) :
                    /\ IsLargest(t, NC_op.decomposed.cliques[k])
                    /\ t.p = NC_op.clique_operator[k].p
              /\ NC_op.clique_operator[k].c = COne

\* the same without the placeholder: each representative keeps the
\* coefficient it has in its clique
RepresentativesKeepCoefficient ==
    pc = "ready" /\ NC_op.n_cliques >= 1 =>
        /\ Len(NC_op.clique_operator) = NC_op.n_cliques
        /\ \A k \in 1..NC_op.n_cliques :
              IsLargest(NC_op.clique_operator[k], NC_op.decomposed.cliques[k])

C17_RepresentativeKeepsCoefficient ==
    /\ pc = "ready"
    /\ strategy = "from_PauliwordOp"
    /\ NC_op.n_cliques = 2
    /\ Len(NC_op.decomposed.cliques[1]) >= 2
    /\ NC_op.clique_operator[1].c = CInt(-2)
    /\ IsLargest(NC_op.clique_operator[1], NC_op.decomposed.cliques[1])

\* the cliques a row of C_indices selects
SelectedCliques(Crow) == {i \in 1..Len(Crow) : Crow[i] # 0}

Masks(NC) == <<NC.mask_S0>> \o NC.mask_Ci

\* C22: in a constructed object every row of C_indices selects at most one
\* clique; mask_S0 holds exactly the rows whose C_indices row is all zero
\* and mask_Ci[i] exactly the rows that select clique i and no other; the
\* masks mask_S0, mask_Ci[0], ..., mask_Ci[M-1] are pairwise disjoint and
\* every row of the operator lies in one of them.
C22_MasksPartitionRows ==
    pc = "ready" =>
        /\ Len(NC_op.C_indices) = Len(NC_op.terms)
        /\ Len(NC_op.mask_S0) = Len(NC_op.terms)
        /\ Len(NC_op.mask_Ci) = NC_op.n_cliques
        /\ \A t \in 1..Len(NC_op.terms) :
              /\ Len(NC_op.C_indices[t]) = NC_op.n_cliques
              /\ Cardinality(SelectedCliques(NC_op.C_indices[t])) <= 1
              /\ NC_op.mask_S0[t] <=> SelectedCliques(NC_op.C_indices[t]) = {}
              /\ \A i \in 1..NC_op.n_cliques :
                    NC_op.mask_Ci[i][t] <=> SelectedCliques(NC_op.C_indices[t]) = {i}
              /\ Cardinality({m \in 1..Len(Masks(NC_op)) : Masks(NC_op)[m][t]}) = 1

C22_RowsInEveryMask ==
    /\ pc = "ready"
    /\ NC_op.n_cliques >= 3
    /\ \E t \in 1..Len(NC_op.terms) : NC_op.mask_S0[t]
    /\ \A i \in 1..NC_op.n_cliques :
          Cardinality({t \in 1..Len(NC_op.terms) : NC_op.mask_Ci[i][t]}) >= 1
    /\ \E t \in 1..Len(NC_op.terms) :
          /\ ~NC_op.mask_S0[t]
          /\ AnySet(NC_op.G_indices[t])

(***************************************************************************)
(* Properties of solve, checked under SpecSolve.                           *)
(***************************************************************************)
\* the eigenvalues the reference state of the last solve fixed (0: free)
FixedByRef ==
    IF last.ref_state = NoRef THEN [j \in 1..Len(NC_op.symmetry_generators) |-> 0]
    ELSE update_sector(NC_op.symmetry_generators, last.ref_state)

IsAssignment(nu) ==
    /\ Len(nu) = Len(NC_op.symmetry_generators)
    /\ \A j \in 1..Len(nu) : nu[j] \in {-1, 1}

Consistent(nu) ==
    \A j \in 1..Len(nu) : FixedByRef[j] # 0 => nu[j] = FixedByRef[j]

Assignments == {nu \in [1..Len(NC_op.symmetry_generators) -> {-1, 1}] : Consistent(nu)}

StoredEnergy == [s0 |-> energy.s0, sq |-> energy.sq]

BruteForceMinimum ==
    energy_via_brute_force(NC_solver(NC_op, last.before, last.ref_state)).energy

\* C3: the brute-force solver returns an assignment nu that agrees with the
\* fixed eigenvalues, the energy of nu, and no consistent assignment has a
\* lower energy; the nu of the relaxation solver on the same input never has
\* a lower energy than the brute-force minimum.
C3_BruteForceIsMinimal ==
    /\ last.op = "solve" /\ last.strategy = "brute_force" =>
          /\ IsAssignment(last.nu)
          /\ Consistent(last.nu)
          /\ energy.set
          /\ StoredEnergy = get_energy(NC_op, last.nu)
          /\ \A nu \in Assignments : ELeq(StoredEnergy, get_energy(NC_op, nu))
    /\ last.op = "solve" /\ last.strategy = "binary_relaxation" =>
          /\ last.nu \in Assignments
          /\ ELeq(BruteForceMinimum, get_energy(NC_op, last.nu))

C3_MinimumAmongSeveral ==
    /\ last.op = "solve"
    /\ last.strategy = "brute_force"
    /\ last.ref_state # NoRef
    /\ \E j \in 1..Len(FixedByRef) : FixedByRef[j] = 0
    /\ \E j \in 1..Len(FixedByRef) : FixedByRef[j] = -1
    /\ \E nu \in Assignments : ELess(StoredEnergy, get_energy(NC_op, nu))
    /\ \E j \in 1..Len(last.nu) : FixedByRef[j] = 0 /\ last.nu[j] = 1

\* s(nu) divided by its 2-norm
Amplitudes(si) == [i \in 1..Len(si) |-> CReal(SDiv(si[i], SSqrt(SSumSq(si))))]

\* C6: once solve has completed, the eigenvalues of the symmetry generators
\* are the solver's nu, each -1 or +1 and equal to the value the reference
\* state fixed, and the coefficient vector of the clique operator is s(nu)
\* divided by its 2-norm.
C6_EigenvaluesThenAmplitudes ==
    last.op = "solve" /\ last.completed =>
        /\ ev_assignment = last.nu
        /\ IsAssignment(ev_assignment)
        /\ Consistent(ev_assignment)
        /\ coeff_vec(clique_operator)
              = Amplitudes(get_symmetry_contributions(NC_op, ev_assignment).si)

C6_SolvedFromReferenceState ==
    /\ last.op = "solve"
    /\ last.completed
    /\ last.strategy \in {"brute_force_PUSO", "annealing_QUSO"}
    /\ last.ref_state # NoRef
    /\ ev_assignment # last.before
    /\ \E j \in 1..Len(ev_assignment) : ev_assignment[j] = -1
    /\ Len(clique_operator) >= 2
    /\ get_symmetry_contributions(NC_op, ev_assignment).si
          # get_symmetry_contributions(NC_op, last.before).si

(***************************************************************************)
(* Properties of unitary_partitioning, checked under SpecUP.               *)
(***************************************************************************)
HasRealCoefficients(op) == \A i \in 1..Len(op) : IsZero(op[i].c.im)

\* gamma * Ps
Scaled(Ps, gamma) == multiply_by_constant(Ps, CReal(gamma))

IsUnitary(R) == OpMul(R, dagger(R)) = IdentityOp(n_qubits(R))

RecipeMapsToTarget ==
    /\ ret.ok
    /\ Len(ret.Ps) = 1
    /\ ret.Ps[1].p = AC[request.s_index + 1].p
    /\ ret.gamma_l = CNorm(coeff_vec(AC))
    /\ request.up_method = "LCU" =>
          /\ ret.R_LCU.set
          /\ IsUnitary(ret.R_LCU.op)
          /\ SameOperator(conjugate_Pop_with_R(AC, ret.R_LCU.op),
                          Scaled(ret.Ps, ret.gamma_l))
    /\ request.up_method = "seq_rot" =>
          SameOperator(perform_rotations(AC, ret.X_sk_rotations),
                       Scaled(ret.Ps, ret.gamma_l))

\* whether every number of the returned recipe is known exactly
IsExact(x) == x # Irr

ExactOp(op) == \A i \in 1..Len(op) : IsExact(op[i].c.re) /\ IsExact(op[i].c.im)

RecipeExact ==
    /\ request.up_method = "LCU" => ExactOp(ret.R_LCU.op)
    /\ request.up_method = "seq_rot" =>
          \A k \in 1..Len(ret.X_sk_rotations) :
              /\ IsExact(ret.X_sk_rotations[k].theta_sk.c)
              /\ IsExact(ret.X_sk_rotations[k].theta_sk.s)

TargetGiven ==
    /\ calls >= 1
    /\ request.s_index # NoIndex
    /\ request.up_method \in {"seq_rot", "LCU"}

\* C4: for an anticommuting set of at least two terms with real
\* coefficients and any target index, the recipe unitary_partitioning
\* returns maps the set to gamma * Ps, gamma being the 2-norm of the
\* coefficients: the LCU operator is unitary and conjugation by it gives
\* gamma * Ps, and the recorded rotations applied in order give gamma * Ps.
C4_RecipeRoundTrip ==
    TargetGiven /\ Len(AC) >= 2 /\ HasRealCoefficients(AC) =>
        ret.ok /\ (RecipeExact => RecipeMapsToTarget)

\* where a recipe is returned and known exactly, it maps the set to gamma * Ps
RoundTripWhereReturned ==
    TargetGiven /\ Len(AC) >= 2 /\ ret.ok /\ RecipeExact => RecipeMapsToTarget

C4_NoRecipeForZeroPair ==
    /\ TargetGiven
    /\ AC = Clique(<< <<"Y", "I">>, <<"Z", "I">>, <<"X", "I">> >>, <<0, 0, 1>>)
    /\ request = [s_index |-> 0, up_method |-> "seq_rot"]
    /\ ~ret.ok
    /\ ret.err = "AssertionError: term not zeroing out"

\* C5: after any sequence of calls the caches hold the recipe of the most
\* recent call only: the rotation list and the LCU operator are never both
\* cached, and a cached recipe was left by the latest call.
C5_OnlyLatestRecipeCached ==
    /\ ~(X_sk_rotations # <<>> /\ R_LCU.set)
    /\ X_sk_rotations # <<>> => X_sk_call = calls
    /\ R_LCU.set => R_LCU_call = calls

C5_BothRecipesCached ==
    /\ calls = 2
    /\ X_sk_rotations # <<>>
    /\ R_LCU.set
    /\ X_sk_call = 1
    /\ R_LCU_call = 2

(***************************************************************************)
(* Properties of the solvers' read-back, checked under SpecSolve.          *)
(***************************************************************************)
\* the mask of the generators the reference state of the last solve fixed
FixedMask == [j \in 1..Len(FixedByRef) |-> FixedByRef[j] # 0]

\* the discrete assignment the optimum of the relaxation rounds to: the sign
\* of cos(theta) on a free generator, the fixed eigenvalue on a fixed one
RoundedBySign(x) ==
    [j \in 1..Len(FixedByRef) |->
        IF FixedMask[j] THEN FixedByRef[j]
        ELSE Sgn(cos_grid(x[RankIn(FixedMask, j, FALSE)]))]

OptimumAtEnds(x) == \A j \in 1..Len(x) : x[j] \in {0, 2}

\* C11: the relaxation returns, for an optimum whose angles are 0 or pi, the
\* sign of cos(theta_i) on every free generator (-1 at pi, +1 at 0) and the
\* fixed eigenvalue on every fixed generator.
C11_RelaxationRoundsBySign ==
    last.op = "solve" /\ last.strategy = "binary_relaxation"
                      /\ OptimumAtEnds(last.optimum) =>
        last.nu = RoundedBySign(last.optimum)

C11_OptimumAtPiReturnedAsPlusOne ==
    /\ last.op = "solve"
    /\ last.strategy = "binary_relaxation"
    /\ OptimumAtEnds(last.optimum)
    /\ \E j \in 1..Len(last.nu) :
          /\ ~FixedMask[j]
          /\ last.optimum[RankIn(FixedMask, j, FALSE)] = 2
          /\ last.nu[j] = 1
    /\ \A nu \in Assignments :
          ELeq(get_energy(NC_op, RoundedBySign(last.optimum)), get_energy(NC_op, nu))
    /\ ELess(get_energy(NC_op, RoundedBySign(last.optimum)), get_energy(NC_op, last.nu))

SpinStrategies == SolveStrategies \ {"brute_force", "binary_relaxation"}

\* the generators whose spin variable occurs in the cost function of the
\* last solve
CostVariables == get_cost_func(NC_solver(NC_op, last.before, last.ref_state)).V

FreeGenerators == {g \in 1..Len(FixedMask) : ~FixedMask[g]}

\* C12: with a spin-model strategy on an object with cliques, whatever the
\* mask, the solution is mapped back without an error, each free generator g
\* receives the value of the variable created for g, and each fixed
\* generator keeps its eigenvalue.
C12_SolutionMappedByGenerator ==
    last.op = "solve" /\ last.strategy \in SpinStrategies /\ NC_op.n_cliques >= 1 =>
        /\ last.nu # <<>>
        /\ \A g \in 1..Len(FixedMask) :
              last.nu[g] = IF FixedMask[g] THEN FixedByRef[g] ELSE last.optimum[g]

C12_FixedBelowFreeFails ==
    /\ last.op = "solve"
    /\ last.strategy \in SpinStrategies
    /\ NC_op.n_cliques >= 1
    /\ \E f, g \in 1..Len(FixedMask) : f < g /\ FixedMask[f] /\ ~FixedMask[g]
    /\ CostVariables = FreeGenerators
    /\ ~last.completed
    /\ err = "KeyError: 'x'"
    /\ last.nu = <<>>

UnknownStrategyError == "ValueError: Unknown optimization strategy: other"

\* C16: solve with a strategy outside its recognised set raises the error
\* that names the strategy before anything of the object is changed: the
\* eigenvalues of the symmetry generators are those held before the call.
C16_UnknownStrategyChangesNothing ==
    last.op = "solve" /\ last.strategy = "other" =>
        /\ ~last.completed
        /\ err = UnknownStrategyError
        /\ ev_assignment = last.before

C16_SectorUpdatedBeforeError ==
    /\ last.op = "solve"
    /\ last.strategy = "other"
    /\ last.ref_state # NoRef
    /\ err = UnknownStrategyError
    /\ ev_assignment = update_sector(NC_op.symmetry_generators, last.ref_state)
    /\ ev_assignment # last.before

\* C20: whatever updates and solves have run, row i of the clique operator
\* holds the representative of clique i, the row the amplitude s_i computed
\* from mask_Ci[i] is assigned to.
C20_RepresentativesStayInPlace ==
    pc = "ready" =>
        /\ Len(clique_operator) = Len(NC_op.clique_operator)
        /\ \A i \in 1..Len(clique_operator) :
              clique_operator[i].p = NC_op.clique_operator[i].p

C20_AmplitudeOnOtherClique ==
    /\ last.op = "solve"
    /\ last.completed
    /\ ops = 2
    /\ NC_op.n_cliques = 2
    /\ clique_operator[1].p = NC_op.clique_operator[2].p
    /\ clique_operator[2].p = NC_op.clique_operator[1].p
    /\ coeff_vec(clique_operator)
          = Amplitudes(get_symmetry_contributions(NC_op, ev_assignment).si)
    /\ clique_operator[1].c # clique_operator[2].c

(***************************************************************************)
(* Properties of the target, the inputs and the method of                  *)
(* unitary_partitioning, checked under SpecUP.                             *)
(***************************************************************************)
\* the number of non-identity qubit positions of a term
Density(P) == Cardinality({q \in 1..Len(P) : P[q] # "I"})

IsLeastDense(P, op) == \A i \in 1..Len(op) : Density(P) <= Density(op[i].p)

\* C13: a call without a target index on a set of two or more terms
\* partitions onto a term whose number of non-identity positions is least
\* among the terms of the set.
C13_DefaultTargetLeastDense ==
    calls >= 1 /\ request.s_index = NoIndex /\ Len(AC) >= 2 /\ ret.ok =>
        /\ \E i \in 1..Len(AC) : AC[i].p = ret.Ps[1].p
        /\ IsLeastDense(ret.Ps[1].p, AC)

C13_DenserTermChosen ==
    /\ calls >= 1
    /\ request.s_index = NoIndex
    /\ AC = Clique(<< <<"X", "I", "I", "X">>, <<"I", "Z", "Z", "Z">> >>, <<1, 1>>)
    /\ ret.ok
    /\ ret.Ps[1].p = <<"I", "Z", "Z", "Z">>
    /\ Density(ret.Ps[1].p) = Density(AC[1].p) + 1

HasComplexCoefficient(op) == \E i \in 1..Len(op) : ~IsZero(op[i].c.im)

\* C14: on a set of two or more terms with a coefficient of non-zero
\* imaginary part every call raises, returns nothing and leaves no rotation
\* and no LCU operator cached.
C14_ComplexCoefficientsRejected ==
    calls >= 1 /\ Len(AC) >= 2 /\ HasComplexCoefficient(AC) =>
        /\ ~ret.ok
        /\ ret.err # ""
        /\ X_sk_rotations = <<>>
        /\ ~R_LCU.set

C14_CancellingImaginaryPartsAccepted ==
    /\ calls = 1
    /\ AC = ComplexClique(<< <<"X", "I">>, <<"Z", "I">> >>, <<2, 1>>, <<1, -1>>)
    /\ request.up_method = "LCU"
    /\ ret.ok
    /\ ret.rotations = "LCU"
    /\ R_LCU.set

UnknownMethodError == "ValueError: unknown unitary partitioning method: other!"

\* C15: a call whose method is neither 'seq_rot' nor 'LCU' raises the error
\* that names the method and returns nothing, on every set, a single-term
\* set included.
C15_UnknownMethodRaises ==
    calls >= 1 /\ request.up_method = "other" =>
        /\ ~ret.ok
        /\ ret.err = UnknownMethodError
        /\ ret.Ps = <<>>

C15_SingleTermIgnoresMethod ==
    /\ calls = 1
    /\ Len(AC) = 1
    /\ request.up_method = "other"
    /\ ret.ok
    /\ ret.err = ""
    /\ ret.Ps = <<Term(AC[1].p, COne)>>
    /\ ret.rotations = "None"

\* C18: on a set of exactly one term every call returns no rotation, Ps
\* with the term's Pauli string, and gamma equal to the magnitude of the
\* term's coefficient, so that gamma * Ps is the term up to its sign;
\* neither cache is touched.
C18_SingleTermPartition ==
    calls >= 1 /\ Len(AC) = 1 =>
        /\ ret.ok
        /\ ret.rotations = "None"
        /\ Len(ret.Ps) = 1
        /\ ret.Ps[1].p = AC[1].p
        /\ ret.gamma_l = SSqrt(MagSq(AC[1].c))
        /\ ~CIsZero(AC[1].c) => Scaled(ret.Ps, ret.gamma_l) = AC
        /\ X_sk_rotations = <<>>
        /\ ~R_LCU.set

C18_NegativeSingleTerm ==
    /\ calls >= 1
    /\ AC = Clique(<< <<"Z", "Z">> >>, <<-2>>)
    /\ request.up_method = "LCU"
    /\ ret.ok
    /\ ret.rotations = "None"
    /\ ret.gamma_l = I2S(2)
    /\ ret.Ps = <<Term(<<"Z", "Z">>, CInt(-1))>>

\* two terms anticommute: they differ, both being non-identity, on an odd
\* number of qubits
StrictlyAnticommute(P, R) ==
    Cardinality({q \in 1..Len(P) : P[q] # "I" /\ R[q] # "I" /\ P[q] # R[q]}) % 2 = 1

PairwiseAnticommuting(op) ==
    \A i, j \in 1..Len(op) : i # j => StrictlyAnticommute(op[i].p, op[j].p)

\* C19: whichever constructor is used, an AntiCommutingOp exists exactly
\* when the terms given anticommute pairwise, and otherwise the constructor
\* raises and leaves no object; every operator unitary_partitioning returns,
\* reordered or not, anticommutes pairwise and holds the terms of the set.
C19_OnlyAntiCommutingSetsExist ==
    /\ pc = "clique" => AC = H /\ PairwiseAnticommuting(AC)
    /\ pc = "failed" => AC = <<>> /\ err = NotAntiCommuting
    /\ pc # "new" => (pc = "failed" <=> ~PairwiseAnticommuting(H))
    /\ calls >= 1 /\ ret.ok =>
          /\ PairwiseAnticommuting(ret.AC_op)
          /\ {t.p : t \in Range(ret.AC_op)} = {t.p : t \in Range(AC)}

C19_CommutingPairRejected ==
    /\ pc = "failed"
    /\ strategy = "from_dictionary"
    /\ H = Clique(<< <<"X", "I">>, <<"Z", "I">>, <<"X", "X">> >>, <<1, 2, 3>>)
    /\ AC = <<>>
    /\ err = NotAntiCommuting

(***************************************************************************)
(* Properties of the energy model and of the stored results of solve,      *)
(* checked under SpecSolve.                                                *)
(***************************************************************************)
AllNu == [1..Len(NC_op.symmetry_generators) -> {-1, 1}]

\* the product of nu_j over the generators j <= k that a row uses
RECURSIVE NuProduct(_, _, _)
NuProduct(Grow, nu, k) ==
    IF k = 0 THEN 1
    ELSE (IF Grow[k] = 1 THEN nu[k] ELSE 1) * NuProduct(Grow, nu, k - 1)

\* Re(coeff(t) * sign(t) * prod nu_j)
RowContribution(NC, nu, t) ==
    SMul(I2S(NC.pauli_mult_signs[t] * NuProduct(NC.G_indices[t], nu, Len(nu))),
         NC.terms[t].c.re)

RECURSIVE SumOfRows(_, _, _)
SumOfRows(NC, nu, rows) ==
    IF rows = {} THEN Zero
    ELSE SAdd(RowContribution(NC, nu, CHOOSE t \in rows : TRUE),
              SumOfRows(NC, nu, rows \ {CHOOSE t \in rows : TRUE}))

RowsOf(mask) == {t \in 1..Len(mask) : mask[t]}

RECURSIVE SumOfSquares(_)
SumOfSquares(v) == IF v = <<>> THEN Zero ELSE SAdd(SSq(Head(v)), SumOfSquares(Tail(v)))

Flipped(nu, j) == [nu EXCEPT ![j] = -nu[j]]

ContributionsAsSums(NC, nu) ==
    /\ get_symmetry_contributions(NC, nu).s0 = SumOfRows(NC, nu, RowsOf(NC.mask_S0))
    /\ Len(get_symmetry_contributions(NC, nu).si) = NC.n_cliques
    /\ \A i \in 1..NC.n_cliques :
          get_symmetry_contributions(NC, nu).si[i]
              = SumOfRows(NC, nu, RowsOf(NC.mask_Ci[i]))
    /\ get_energy(NC, nu).s0 = SumOfRows(NC, nu, RowsOf(NC.mask_S0))
    /\ get_energy(NC, nu).sq
          = SumOfSquares([i \in 1..NC.n_cliques |->
                             SumOfRows(NC, nu, RowsOf(NC.mask_Ci[i]))])

FlipNegatesUsers(NC, nu, j) ==
    \A t \in 1..Len(NC.terms) :
        coeff_mod(NC, Flipped(nu, j))[t]
            = IF NC.G_indices[t][j] = 1 THEN CNeg(coeff_mod(NC, nu)[t])
              ELSE coeff_mod(NC, nu)[t]

\* C21: for every assignment nu of -1 and +1, s0 and each s_i are the sums
\* of Re(coeff * sign * product of the nu_j the row uses) over the rows of
\* mask_S0 and of mask_Ci[i], the energy is s0 minus the 2-norm of s (kept
\* as s0 and the sum of squares), and flipping one nu_j negates exactly the
\* contributions of the rows that use generator j; the energy a brute-force
\* solve stores is that of the nu it returns.
C21_EnergyModel ==
    /\ \A nu \in AllNu :
          /\ ContributionsAsSums(NC_op, nu)
          /\ \A j \in 1..Len(nu) : FlipNegatesUsers(NC_op, nu, j)
    /\ last.op = "solve" /\ last.strategy = "brute_force" =>
          /\ StoredEnergy.s0 = SumOfRows(NC_op, last.nu, RowsOf(NC_op.mask_S0))
          /\ StoredEnergy.sq
                = SumOfSquares([i \in 1..NC_op.n_cliques |->
                                   SumOfRows(NC_op, last.nu, RowsOf(NC_op.mask_Ci[i]))])

C21_SignedRowUnderMinusOne ==
    /\ last.op = "solve"
    /\ last.strategy = "brute_force"
    /\ NC_op.n_cliques >= 1
    /\ \E t \in 1..Len(NC_op.terms), j \in 1..Len(last.nu) :
          /\ NC_op.pauli_mult_signs[t] = -1
          /\ NC_op.G_indices[t][j] = 1
          /\ last.nu[j] = -1
          /\ \E i \in 1..NC_op.n_cliques : NC_op.mask_Ci[i][t]
    /\ \E t \in 1..Len(NC_op.terms) : NC_op.mask_S0[t]

\* C26: after a solve that completes with a recognised strategy, the energy
\* stored on the operator is get_energy at the eigenvalues stored on the
\* symmetry generators.
C26_StoredEnergyAtStoredEigenvalues ==
    last.op = "solve" /\ last.completed /\ last.strategy \in SolveStrategies =>
        /\ energy.set
        /\ StoredEnergy = get_energy(NC_op, ev_assignment)

\* the strategies that evaluate get_energy at the nu they return
EnergyAtStoredWithoutRelaxation ==
    last.op = "solve" /\ last.completed
                      /\ last.strategy \in SolveStrategies \ {"binary_relaxation"} =>
        /\ energy.set
        /\ StoredEnergy = get_energy(NC_op, ev_assignment)

C26_RelaxationEnergyOfOtherAssignment ==
    /\ last.op = "solve"
    /\ last.completed
    /\ last.strategy = "binary_relaxation"
    /\ last.ref_state = NoRef
    /\ OptimumAtEnds(last.optimum)
    /\ ev_assignment = last.nu
    /\ StoredEnergy = get_energy(NC_op, RoundedBySign(last.optimum))
    /\ \A nu \in Assignments : ELeq(StoredEnergy, get_energy(NC_op, nu))
    /\ ELess(StoredEnergy, get_energy(NC_op, ev_assignment))

NoCliqueError == "AttributeError: 'PauliwordOp' object has no attribute 'unitary_partitioning'"

SolvedWithoutCliques ==
    /\ last.op = "solve"
    /\ last.strategy \in SolveStrategies
    /\ NC_op.n_cliques = 0

\* the energy is s0 at the stored eigenvalues, and no consistent assignment
\* has a lower s0
StoresMinimumOfS0 ==
    /\ energy.set
    /\ energy.sq = Zero
    /\ energy.s0 = get_symmetry_contributions(NC_op, ev_assignment).s0
    /\ \A nu \in Assignments :
          ~RLess(get_symmetry_contributions(NC_op, nu).s0, energy.s0)

\* C27: solve on an operator without cliques completes without error; with
\* the brute-force strategy it stores the minimum of s0(nu) as the energy
\* and the minimising nu as the eigenvalues of the symmetry generators.
C27_SolveCompletesWithoutCliques ==
    SolvedWithoutCliques =>
        /\ last.completed
        /\ err = ""
        /\ last.strategy = "brute_force" => StoresMinimumOfS0

\* energy and eigenvalues are stored before the clique operator is updated
MinimumStoredWithoutCliques ==
    SolvedWithoutCliques /\ last.strategy = "brute_force" => StoresMinimumOfS0

C27_SolveRaisesWithoutCliques ==
    /\ SolvedWithoutCliques
    /\ last.strategy = "brute_force"
    /\ last.ref_state = NoRef
    /\ H = PoolRows(<<1, 3, 5>>)
    /\ ~last.completed
    /\ err = NoCliqueError
    /\ StoresMinimumOfS0
    /\ clique_operator = <<>>

(***************************************************************************)
(* conjugate_Pop_with_R applied to an operator Pop (held in H) and a        *)
(* rotation operator R.                                                    *)
(***************************************************************************)
MaxPopTerms == 3

MaxRTerms == 3

\* the operators Pop: up to MaxPopTerms terms of the pool in pool order, and
\* an anticommuting pair with complex coefficients
ConjPops ==
    {PoolRows(f) : f \in {g \in Selections : IsIncreasing(g) /\ Len(g) <= MaxPopTerms}}
    \cup {<<Term(<<"X", "I">>, Cx(I2S(2), One)), Term(<<"Z", "I">>, Cx(One, I2S(-1)))>>}

\* the terms R draws on: 3/5 II and -4/5 i XI make a rotation about XI; the
\* others commute or anticommute with it and with the pool
RPaulis == << <<"I", "I">>, <<"X", "I">>, <<"Z", "Z">>, <<"Y", "Y">>, <<"Z", "X">> >>

RCoeffs == <<Cx(Q(3, 5), Zero), Cx(Zero, Q(-4, 5)), Cx(One, One),
             Cx(I2S(2), Zero), Cx(Zero, I2S(-1))>>

RRows(f) == [i \in 1..Len(f) |-> Term(RPaulis[f[i]], RCoeffs[f[i]])]

ConjRotations ==
    {RRows(f) : f \in {g \in UNION {[1..k -> 1..Len(RPaulis)] : k \in 1..MaxRTerms} :
                          IsInjective(g)}}

InitConj ==
    /\ H \in ConjPops
    /\ R_op \in ConjRotations
    /\ rot_H = <<>>
    /\ pc = "start"
    /\ err = ""
    /\ strategy = ""
    /\ ncInit
    /\ loopInit
    /\ upIdle
    /\ poolIdle
    /\ vqeIdle

\* rot_H = conjugate_Pop_with_R(Pop, R)
ConjugatePopWithR ==
    /\ pc = "start"
    /\ rot_H' = conjugate_Pop_with_R(H, R_op)
    /\ pc' = "rotated"
    /\ UNCHANGED <<H, R_op, err, strategy, operator, ncVars, dfsVars, sweepVars, upVars,
                   poolVars, vqeVars>>

NextConj == ConjugatePopWithR

SpecConj == InitConj /\ [][NextConj]_vars

\* R * Op * R-dagger by operator multiplication
DirectProduct(Pop, R) == OpMul(OpMul(R, Pop), dagger(R))

IsCleanedUp(op) ==
    /\ \A i, j \in 1..Len(op) : i # j => op[i].p # op[j].p
    /\ \A i \in 1..Len(op) : ~CIsZero(op[i].c)

\* the diagonal contribution of rows a of Pop and i of R: the term P_a with
\* coefficient |c_i|^2 * c_a, negated when P_a and P_i anticommute
DiagonalContribution(Pa, Ri) ==
    Term(Pa.p, CScale(Pa.c, IF Commutes(Pa.p, Ri.p) THEN MagSq(Ri.c)
                            ELSE SNeg(MagSq(Ri.c))))

\* C23: for Op of two or more terms the term-by-term result of
\* conjugate_Pop_with_R is, as a cleaned-up operator, the direct product
\* R * Op * R-dagger, and every diagonal contribution is a real multiple
\* of the term it comes from.
C23_TermByTermIsDirectProduct ==
    pc = "rotated" /\ Len(H) >= 2 =>
        /\ IsCleanedUp(rot_H)
        /\ Range(rot_H) = Range(cleanup(DirectProduct(H, R_op)))
        /\ \A a \in 1..Len(H), i \in 1..Len(R_op) :
              Head(ConjugationTerms(H[a], R_op, i)) = DiagonalContribution(H[a], R_op[i])

C23_CrossTermsKeptAndCancelled ==
    /\ pc = "rotated"
    /\ Len(H) >= 2
    /\ Len(R_op) = 3
    /\ \E a \in 1..Len(H), i \in 1..Len(R_op) :
          /\ Len(ConjugationTerms(H[a], R_op, i)) = 1
          /\ i < Len(R_op)
    /\ \E a \in 1..Len(H), i \in 1..Len(R_op) : Len(ConjugationTerms(H[a], R_op, i)) = 3
    /\ \E t \in 1..Len(rot_H) : ~IsZero(rot_H[t].c.im)
    /\ \E t \in 1..Len(rot_H) : \A a \in 1..Len(H) : rot_H[t].p # H[a].p

(***************************************************************************)
(* The recipe and the returned clique of unitary_partitioning, checked      *)
(* under SpecUP.                                                           *)
(***************************************************************************)
\* the target of the last call, from 0
TargetOfCall ==
    IF request.s_index = NoIndex THEN get_least_dense_term_index(AC) ELSE request.s_index

\* the receiver's terms with coefficients divided by the 2-norm and rows 0
\* and s exchanged
ReorderedClique == Swap(Normalised(AC, CNorm(coeff_vec(AC))), 1, TargetOfCall + 1)

RECURSIVE SumSqUpTo(_, _)
SumSqUpTo(op, k) == IF k = 0 THEN Zero ELSE SAdd(SSq(op[k].c.re), SumSqUpTo(op, k - 1))

\* beta_0 when the k-th other term is rotated away
BetaZeroAt(op, k) == IF k = 1 THEN op[1].c.re ELSE SSqrt(SumSqUpTo(op, k))

\* the sign of the real part of P_s * (-i P_k)
ProductSign(Ps, Pk) == SSign(TermMul(Term(Ps, COne), Term(Pk, Cx(Zero, I2S(-1)))).c.re)

\* the k-th recorded pair for the reordered clique op
RecordedPair(op, rot, k) ==
    /\ rot.X_sk.p = PauliMul(op[1].p, op[k + 1].p).p
    /\ IsZero(rot.X_sk.c.im)
    /\ SSign(rot.X_sk.c.re) >= 0
    /\ IsZero(SSub(SMul(op[k + 1].c.re, rot.theta_sk.c),
                   SMul(SMul(I2S(ProductSign(op[1].p, op[k + 1].p)), BetaZeroAt(op, k)),
                        rot.theta_sk.s)))

SeqRotRecipe ==
    /\ Len(X_sk_rotations) = Len(AC) - 1
    /\ \A k \in 1..Len(X_sk_rotations) :
          RecordedPair(ReorderedClique, X_sk_rotations[k], k)

SeqRotCalled ==
    /\ calls >= 1
    /\ request.up_method = "seq_rot"
    /\ Len(AC) >= 2
    /\ HasRealCoefficients(AC)

\* C24: after a sequence-of-rotations call on a clique of n >= 2 terms the
\* recorded list has n - 1 pairs; the k-th generator is the Pauli product of
\* the target with the k-th other term of the reordered clique and has a
\* coefficient of non-negative real part; the k-th angle, taken with the
\* sign of that product, zeroes the partner against beta_0, which is the
\* root of the sum of squares of the coefficients consumed so far.
C24_SeqRotRecipe == SeqRotCalled => SeqRotRecipe

\* the recipe is as described wherever the call returns
SeqRotRecipeWhereReturned == SeqRotCalled /\ ret.ok => SeqRotRecipe

C24_NoPairForZeroTarget ==
    /\ SeqRotCalled
    /\ AC = Clique(<< <<"Y", "I">>, <<"Z", "I">>, <<"X", "I">> >>, <<0, 0, 1>>)
    /\ request.s_index = 1
    /\ ~ret.ok
    /\ ret.err = "AssertionError: term not zeroing out"
    /\ X_sk_rotations = <<>>

C24_ThreeTermRecipeReturned ==
    /\ SeqRotCalled
    /\ Len(AC) = 3
    /\ ret.ok
    /\ SeqRotRecipe
    /\ \E k \in 1..2 : ProductSign(ReorderedClique[1].p, ReorderedClique[k + 1].p) = -1
    /\ SSign(ReorderedClique[1].c.re) < 0

PartitionCalled ==
    /\ calls >= 1
    /\ request.up_method \in {"seq_rot", "LCU"}
    /\ Len(AC) >= 2
    /\ HasRealCoefficients(AC)

NormalisedAndReordered ==
    /\ ret.gamma_l = SSqrt(SumSqUpTo(AC, Len(AC)))
    /\ Len(ret.AC_op) = Len(AC)
    /\ \A i \in 1..Len(AC) :
          ret.AC_op[i] =
              Term(AC[IF i = 1 THEN TargetOfCall + 1
                      ELSE IF i = TargetOfCall + 1 THEN 1 ELSE i].p,
                   CDivS(AC[IF i = 1 THEN TargetOfCall + 1
                            ELSE IF i = TargetOfCall + 1 THEN 1 ELSE i].c, ret.gamma_l))
    /\ SameOperator(Scaled(ret.AC_op, ret.gamma_l), AC)
    /\ Len(ret.Ps) = 1
    /\ ret.Ps[1].p = AC[TargetOfCall + 1].p

\* C25: for a clique of two or more terms with real coefficients and every
\* target s, unitary_partitioning returns gamma, the 2-norm of the
\* receiver's coefficients, and the receiver's terms divided by gamma with
\* rows 0 and s exchanged and every other row in place; gamma times the
\* returned clique is the receiver as an operator, and Ps is the term that
\* was at index s.
C25_NormalisedAndReordered == PartitionCalled => ret.ok /\ NormalisedAndReordered

\* the returned clique is as described wherever the call returns
ReorderedWhereReturned == PartitionCalled /\ ret.ok => NormalisedAndReordered

C25_NothingReturnedForZeroTarget ==
    /\ PartitionCalled
    /\ AC = Clique(<< <<"Y", "I">>, <<"Z", "I">>, <<"X", "I">> >>, <<0, 0, 1>>)
    /\ request = [s_index |-> 0, up_method |-> "seq_rot"]
    /\ ~ret.ok
    /\ ret.AC_op = <<>>

\* the receiver as its constructor left it
AsConstructed == AntiCommutingOp(symp_matrix(H), coeff_vec(H)).op

Pending == [done |-> FALSE, energy |-> [s0 |-> Zero, sq |-> Zero], rank |-> 0]

Completed(e, k) == [done |-> TRUE, energy |-> e, rank |-> k]

NDone(results) == Cardinality({i \in 1..Len(results) : results[i].done})

\* the list a map over completion order would give (imap_unordered)
pool_unordered(results) ==
    [k \in 1..Len(results) |->
        results[CHOOSE i \in 1..Len(results) : results[i].rank = k].energy]

\* the list pool.map returns: the results in the order of the inputs
pool_map(results) == [i \in 1..Len(results) |-> results[i].energy]

\* the solvers solve builds on a new object: without a reference state, or
\* with the eigenvalues a reference state fixes
Solvers(NC) ==
    {NC_solver(NC, [j \in 1..Len(NC.symmetry_generators) |-> 1], ref) :
        ref \in RefStates(NC) \cup {NoRef}}

\* an operator on which three of the four assignments tie for the minimum
Tied == <<Term(<<"Z", "I">>, CInt(1)), Term(<<"I", "Z">>, CInt(1)),
          Term(<<"Z", "Z">>, CInt(1))>>

InitBrute ==
    /\ NC_op \in {r.op : r \in Built \cup {from_PauliwordOp(Tied)}}
    /\ solver \in Solvers(NC_op)
    /\ H = NC_op.terms
    /\ pc = "ready"
    /\ err = ""
    /\ strategy = "from_PauliwordOp"
    /\ ev_assignment = [j \in 1..Len(NC_op.symmetry_generators) |-> 1]
    /\ clique_operator = NC_op.clique_operator
    /\ energy = NoEnergy
    /\ mapped_clique_rep = <<>>
    /\ unitary_partitioning_rotations = NoRotations
    /\ clique_normalization = Zero
    /\ last = NoLast
    /\ ops = 0
    /\ pool_rows = <<>>
    /\ pool_results = <<>>
    /\ worker_op = <<>>
    /\ found = <<>>
    /\ loopInit
    /\ upIdle
    /\ conjIdle
    /\ vqeIdle

bruteFrame == <<H, err, strategy, operator, ncVars, dfsVars, sweepVars, upVars, conjVars,
                vqeVars, solver>>

\* nu_list is built and pool.map hands one row to each task, with a pickled
\* copy of the bound method's operator
BruteForceMap ==
    /\ pc = "ready"
    /\ pool_rows' = nu_list(solver)
    /\ pool_results' = [i \in 1..Len(nu_list(solver)) |-> Pending]
    /\ worker_op' = [i \in 1..Len(nu_list(solver)) |-> solver.NC_op]
    /\ pc' = "map"
    /\ UNCHANGED <<bruteFrame, found>>

\* any task that has not completed may complete next
WorkerCompletes ==
    /\ pc = "map"
    /\ \E i \in 1..Len(pool_rows) :
          /\ ~pool_results[i].done
          /\ pool_results' =
                [pool_results EXCEPT
                    ![i] = Completed(get_energy(worker_op[i], pool_rows[i]),
                                     NDone(pool_results) + 1)]
    /\ UNCHANGED <<bruteFrame, pc, pool_rows, worker_op, found>>

\* once every task has completed, the minimum of zip(tracker, nu_list)
BruteForceReduce ==
    /\ pc = "map"
    /\ NDone(pool_results) = Len(pool_rows)
    /\ found' = search(pool_map(pool_results), pool_rows)
    /\ pc' = "returned"
    /\ UNCHANGED <<bruteFrame, pool_rows, pool_results, worker_op>>

NextBrute == BruteForceMap \/ WorkerCompletes \/ BruteForceReduce

SpecBrute == InitBrute /\ [][NextBrute]_vars

\* the rows of least energy
MinimalRows ==
    {i \in 1..Len(pool_rows) :
        \A j \in 1..Len(pool_rows) :
            ELeq(get_energy(solver.NC_op, pool_rows[i]), get_energy(solver.NC_op, pool_rows[j]))}

\* C28: whatever the order in which the workers complete, the pair returned
\* is the energy and the row of the first row of least energy in
\* enumeration order, which depends on the solver alone, and neither the
\* operator nor any worker's copy of it is changed.
C28_IndependentOfCompletionOrder ==
    /\ pc = "returned" =>
          /\ MinimalRows # {}
          /\ \A i \in MinimalRows :
                (\A j \in MinimalRows : i <= j) =>
                    /\ found.nu = pool_rows[i]
                    /\ found.energy = get_energy(solver.NC_op, pool_rows[i])
          /\ found = energy_via_brute_force(solver)
    /\ pc \in {"map", "returned"} =>
          /\ NC_op = solver.NC_op
          /\ pool_rows = nu_list(solver)
          /\ \A i \in 1..Len(worker_op) : worker_op[i] = solver.NC_op

C28_TiedRowCompletesFirst ==
    /\ pc = "returned"
    /\ Cardinality(MinimalRows) >= 2
    /\ Cardinality(MinimalRows) < Len(pool_rows)
    /\ \E i, j \in MinimalRows :
          /\ i < j
          /\ pool_results[j].rank = 1
          /\ found.nu = pool_rows[i]
    /\ \E i \in 1..Len(pool_rows) :
          /\ i \notin MinimalRows
          /\ pool_results[i].rank < pool_results[CHOOSE m \in MinimalRows : TRUE].rank
(***************************************************************************)
(* VQE_Driver.run: the optimisation step counter.  The counter is a module  *)
(* global that every run resets; fun and jac are the callbacks minimize     *)
(* calls.  Two runs share the process: the second may execute while the     *)
(* first is inside self.f(x) or self.gradient(x) (a nested run) or between  *)
(* two callbacks of the first (another driver on another thread).           *)
(***************************************************************************)
MaxEvals == 3

Runs == {1, 2}

\* a dict: d[key] = value
put(d, key, value) == [k \in DOMAIN d \cup {key} |-> IF k = key THEN value ELSE d[k]]

\* vqe_history = {'params':{}, 'energy':{}, 'gradient':{}}
new_history == [params |-> <<>>, energy |-> <<>>, gradient |-> <<>>]

\* global counter; if increment: counter += 1; return counter
get_counter(increment) == IF increment THEN counter + 1 ELSE counter

\* run_pc[r].n counts the calls of fun and run_pc[r].g the calls of jac that
\* minimize has made; the x of the k-th call of fun is written k (from 0),
\* and jac is called at the x of the latest call of fun
latest_x(r) == run_pc[r].n - 1

InitVQE ==
    /\ counter = -1
    /\ run_pc = [r \in Runs |-> [at |-> "idle", n |-> 0, g |-> 0]]
    /\ run_key = [r \in Runs |-> -1]
    /\ vqe_history = [r \in Runs |-> new_history]
    /\ H = <<>>
    /\ pc = "vqe"
    /\ err = ""
    /\ strategy = ""
    /\ ncInit
    /\ loopInit
    /\ upIdle
    /\ conjIdle
    /\ poolIdle

vqeFrame == UNCHANGED <<H, pc, err, strategy, operator, ncVars, dfsVars, sweepVars, upVars,
                        conjVars, poolVars>>

\* run(): new history, counter = -1, minimize(fun, jac, x0)
RunStart(r) ==
    /\ run_pc[r].at = "idle"
    /\ vqe_history' = [vqe_history EXCEPT ![r] = new_history]
    /\ counter' = -1
    /\ run_pc' = [run_pc EXCEPT ![r] = [at |-> "minimize", n |-> 0, g |-> 0]]
    /\ UNCHANGED run_key
    /\ vqeFrame

\* fun(x): counter = get_counter(increment=True), then self.f(x) is entered
FunCalled(r) ==
    /\ run_pc[r].at = "minimize"
    /\ run_pc[r].n < MaxEvals
    /\ counter' = get_counter(TRUE)
    /\ run_key' = [run_key EXCEPT ![r] = get_counter(TRUE)]
    /\ run_pc' = [run_pc EXCEPT ![r].at = "fun", ![r].n = @ + 1]
    /\ UNCHANGED vqe_history
    /\ vqeFrame

\* self.f(x) returns: params and energy are stored under the local counter
FunReturns(r) ==
    /\ run_pc[r].at = "fun"
    /\ vqe_history' = [vqe_history EXCEPT
                          ![r].params = put(@, run_key[r], latest_x(r)),
                          ![r].energy = put(@, run_key[r], latest_x(r))]
    /\ run_pc' = [run_pc EXCEPT ![r].at = "minimize"]
    /\ UNCHANGED <<counter, run_key>>
    /\ vqeFrame

\* jac(x): counter = get_counter(increment=False), then self.gradient(x) is
\* entered; minimize asks for no gradient before the first energy and for
\* no more gradients than energies
JacCalled(r) ==
    /\ run_pc[r].at = "minimize"
    /\ run_pc[r].g < run_pc[r].n
    /\ run_key' = [run_key EXCEPT ![r] = get_counter(FALSE)]
    /\ run_pc' = [run_pc EXCEPT ![r].at = "jac", ![r].g = @ + 1]
    /\ UNCHANGED <<counter, vqe_history>>
    /\ vqeFrame

\* self.gradient(x) returns: the gradient is stored under the local counter
JacReturns(r) ==
    /\ run_pc[r].at = "jac"
    /\ vqe_history' = [vqe_history EXCEPT ![r].gradient = put(@, run_key[r], latest_x(r))]
    /\ run_pc' = [run_pc EXCEPT ![r].at = "minimize"]
    /\ UNCHANGED <<counter, run_key>>
    /\ vqeFrame

\* minimize returns: run returns the history
RunReturns(r) ==
    /\ run_pc[r].at = "minimize"
    /\ run_pc[r].n >= 1
    /\ run_pc' = [run_pc EXCEPT ![r].at = "returned"]
    /\ UNCHANGED <<counter, run_key, vqe_history>>
    /\ vqeFrame

NextVQE ==
    \E r \in Runs :
        \/ RunStart(r)
        \/ FunCalled(r)
        \/ FunReturns(r)
        \/ JacCalled(r)
        \/ JacReturns(r)
        \/ RunReturns(r)

SpecVQE == InitVQE /\ [][NextVQE]_vars

\* the calls of fun that have returned
EvalsDone(r) == run_pc[r].n - (IF run_pc[r].at = "fun" THEN 1 ELSE 0)

\* energies and parameters under the keys 0, 1, 2, ... in evaluation order,
\* each gradient under the key of the latest energy evaluation
KeysInOrder(r) ==
    LET h == vqe_history[r] IN
    /\ DOMAIN h.energy = 0..(EvalsDone(r) - 1)
    /\ DOMAIN h.params = DOMAIN h.energy
    /\ \A k \in DOMAIN h.energy : h.energy[k] = k /\ h.params[k] = k
    /\ DOMAIN h.gradient \subseteq DOMAIN h.energy
    /\ \A k \in DOMAIN h.gradient : h.gradient[k] = k

\* C30: the step counter of VQE_Driver.run is state of that run alone: every
\* run records its energies under the keys 0, 1, 2, ... in evaluation order
\* and each gradient under the key of its latest energy evaluation, whatever
\* a second run interleaved in the same process does.
C30_StepKeysOfRunAlone == \A r \in Runs : KeysInOrder(r)

\* a run that no other run overlaps records its steps as claimed
KeysInOrderWhenAlone ==
    \A r \in Runs : (\A q \in Runs \ {r} : run_pc[q].at = "idle") => KeysInOrder(r)

\* run 2 ran from start to return inside the first self.f(x) of run 1; run 1
\* then stored the gradient of its evaluation 0 under key 1 and the energy of
\* its evaluation 1 under key 2
C30_NestedRunShiftsKeys ==
    /\ run_pc[2].at = "returned"
    /\ KeysInOrder(2)
    /\ DOMAIN vqe_history[2].energy = {0, 1}
    /\ run_pc[1].at = "minimize"
    /\ DOMAIN vqe_history[1].energy = {0, 2}
    /\ vqe_history[1].energy[2] = 1
    /\ DOMAIN vqe_history[1].gradient = {1}
    /\ vqe_history[1].gradient[1] = 0

====
